---- MODULE Spec2Model ----
(***************************************************************************)
(* deets: the store loader (LoadFile, Load), the global/local merger       *)
(* (Merge), the query and search engine (DB.Query, DB.Search, DB.GetField) *)
(* and the diff derivation (computeDiff).                                  *)
(*                                                                         *)
(* Strings are sequences of one-character strings, so that prefixes,       *)
(* suffixes, byte order (sort.Strings) and glob matching (filepath.Match)  *)
(* are computed as the Go code computes them.                              *)
(***************************************************************************)
EXTENDS Integers, Sequences, FiniteSets, TLC

VARIABLES
    globalFile,   \* the global store file ~/.deets/me.toml
    localFile,    \* the local override file .deets/me.toml
    op,           \* the operation that ran last
    err,          \* its error: "none", "read" or "parse"
    g,            \* the global Database the operation worked on
    l,            \* the local Database the operation worked on
    db,           \* the Database the operation returned (Load, Merge)
    arg,          \* the pattern or text of the last Query / Search
    results,      \* the fields the last Query / Search returned
    entries,      \* the entries the last computeDiff returned
    out,          \* the text the operation wrote to standard output
    format,       \* what that text is: "json", "toml", "value" or "none"
    code,         \* the exit status of the process
    disk,         \* the files and directories an editing operation works on
    prior         \* what disk held before the operation

vars == <<globalFile, localFile, op, err, g, l, db, arg, results, entries,
          out, format, code, disk, prior>>

\* What the operations that print nothing, end no process and edit nothing
\* leave alone.
others == <<out, format, code, disk, prior>>

OthersInit ==
    out = <<>> /\ format = "none" /\ code = 0 /\ disk = <<>> /\ prior = <<>>

----------------------------------------------------------------------------
(* Bytes and strings *)

\* The printable ASCII characters in byte order, 32 (space) to 126 (~); byte 96
\* is written "grave".
ASCII ==
    <<" ", "!", "\"", "#", "$", "%", "&", "'", "(", ")", "*", "+", ",", "-", ".", "/", "0", "1", "2", "3", "4", "5", "6", "7", "8", "9", ":", ";", "<", "=", ">", "?", "@", "A", "B", "C", "D", "E", "F", "G", "H", "I", "J", "K", "L", "M", "N", "O", "P", "Q", "R", "S", "T", "U", "V", "W", "X", "Y", "Z", "[", "\\", "]", "^", "_", "grave", "a", "b", "c", "d", "e", "f", "g", "h", "i", "j", "k", "l", "m", "n", "o", "p", "q", "r", "s", "t", "u", "v", "w", "x", "y", "z", "{", "|", "}", "~">>

CharSet == {ASCII[i] : i \in 1..Len(ASCII)}

OrdTable == [c \in CharSet |-> 31 + (CHOOSE i \in 1..Len(ASCII) : ASCII[i] = c)]

\* The byte value of a character.
Ord(c) == OrdTable[c]

\* Go's < on strings: lexicographic on bytes, a proper prefix is smaller.
RECURSIVE StrLess(_, _)
StrLess(a, b) ==
    IF b = <<>> THEN FALSE
    ELSE IF a = <<>> THEN TRUE
    ELSE IF a[1] = b[1] THEN StrLess(Tail(a), Tail(b))
    ELSE Ord(a[1]) < Ord(b[1])

\* strings.HasPrefix / strings.HasSuffix
HasPrefix(str, p) == Len(p) <= Len(str) /\ SubSeq(str, 1, Len(p)) = p

HasSuffix(str, x) ==
    Len(x) <= Len(str) /\ SubSeq(str, Len(str) - Len(x) + 1, Len(str)) = x

\* strings.Contains(str, ".") for a single byte
ContainsByte(str, c) == \E i \in 1..Len(str) : str[i] = c

\* A sort that yields descending order.
RECURSIVE SortStringsDescending(_)
SortStringsDescending(S) ==
    IF S = {} THEN <<>>
    ELSE LET m == CHOOSE x \in S : \A y \in S : y = x \/ StrLess(y, x)
         IN  <<m>> \o SortStringsDescending(S \ {m})

\* sort.Strings applied to the keys of a map: the set S in ascending order.
RECURSIVE SortStrings(_)
SortStrings(S) ==
    IF S = {} THEN <<>>
    ELSE LET m == CHOOSE x \in S : \A y \in S : y = x \/ StrLess(x, y)
         IN  <<m>> \o SortStrings(S \ {m})

DescSuffix == <<"_", "d", "e", "s", "c">>

\* A test on the wrong end of the key.
IsDescKeyPrefix(key) == HasPrefix(key, DescSuffix)

\* model.IsDescKey
IsDescKey(key) == HasSuffix(key, DescSuffix)

----------------------------------------------------------------------------
(* Values: the interface{} a TOML key decodes to *)

StrVal(x) == [kind |-> "string", str |-> x, num |-> 0, items |-> <<>>]
IntVal(n) == [kind |-> "int64", str |-> <<>>, num |-> n, items |-> <<>>]
BoolVal(b) == [kind |-> "bool", str |-> <<>>, num |-> IF b THEN 1 ELSE 0, items |-> <<>>]
ArrVal(xs) == [kind |-> "array", str |-> <<>>, num |-> 0, items |-> xs]
\* A float64 is kept as the decimal text fmt.Sprint prints for it: the
\* shortest decimal that names it, "1" for 1.0 and "1.5" for 1.5.
FloatVal(text) == [kind |-> "float64", str |-> text, num |-> 0, items |-> <<>>]
\* fmt.Sprint of the floats that are no numbers.
NaNText == <<"N", "a", "N">>
PosInfText == <<"+", "I", "n", "f">>
NegInfText == <<"-", "I", "n", "f">>
\* A map[string]interface{} (a TOML table in value position): its entries
\* as (key, value) pairs.
TblVal(pairs) == [kind |-> "table", str |-> <<>>, num |-> 0, items |-> pairs]
Pair(k, v) == ArrVal(<<StrVal(k), v>>)

\* Tables in value position
TblKeys(t) == {t.items[i].items[1].str : i \in 1..Len(t.items)}

TblGet(t, k) ==
    t.items[CHOOSE i \in 1..Len(t.items) : t.items[i].items[1].str = k].items[2]

TblPut(t, k, v) ==
    IF k \in TblKeys(t)
    THEN TblVal([i \in 1..Len(t.items) |->
                    IF t.items[i].items[1].str = k THEN Pair(k, v) ELSE t.items[i]])
    ELSE TblVal(Append(t.items, Pair(k, v)))


Digits == <<"0", "1", "2", "3", "4", "5", "6", "7", "8", "9">>

\* fmt.Sprint of an int64: the decimal digits, with a sign when negative.
RECURSIVE NatText(_)
NatText(n) ==
    IF n < 10 THEN <<Digits[n + 1]>>
    ELSE NatText(n \div 10) \o <<Digits[(n % 10) + 1]>>

IntText(n) == IF n < 0 THEN <<"-">> \o NatText(0 - n) ELSE NatText(n)

\* strings.Join(parts, ", ")
RECURSIVE JoinComma(_)
JoinComma(parts) ==
    IF parts = <<>> THEN <<>>
    ELSE IF Len(parts) = 1 THEN parts[1]
    ELSE parts[1] \o <<",", " ">> \o JoinComma(Tail(parts))

\* strings.Join(parts, " ")
RECURSIVE JoinSpace(_)
JoinSpace(parts) ==
    IF parts = <<>> THEN <<>>
    ELSE IF Len(parts) = 1 THEN parts[1]
    ELSE parts[1] \o <<" ">> \o JoinSpace(Tail(parts))

\* fmt.Sprintf("%v", item): a string as it is, numbers in decimal, a slice
\* as [x y], a map as map[k:v ...] with the keys sorted.
RECURSIVE ScalarText(_)
ScalarText(v) ==
    CASE v.kind = "string" -> v.str
      [] v.kind = "int64" -> IntText(v.num)
      [] v.kind = "float64" -> v.str
      [] v.kind = "bool" -> IF v.num = 1 THEN <<"t", "r", "u", "e">>
                            ELSE <<"f", "a", "l", "s", "e">>
      [] v.kind = "array" ->
            <<"[">> \o JoinSpace([i \in 1..Len(v.items) |-> ScalarText(v.items[i])])
            \o <<"]">>
      [] v.kind = "table" ->
            LET keys == SortStrings({v.items[i].items[1].str : i \in 1..Len(v.items)})
                at(k) == CHOOSE i \in 1..Len(v.items) : v.items[i].items[1].str = k
            IN  <<"m", "a", "p", "[">>
                \o JoinSpace([i \in 1..Len(keys) |->
                       keys[i] \o <<":">> \o ScalarText(v.items[at(keys[i])].items[2])])
                \o <<"]">>

\* model.FormatValue: the display text of a value.
FormatValue(v) ==
    IF v.kind = "array"
    THEN JoinComma([i \in 1..Len(v.items) |-> ScalarText(v.items[i])])
    ELSE ScalarText(v)

----------------------------------------------------------------------------
(* The built-in description table *)

\* store.DefaultDescriptions as (category, key, description) triples.
DefaultDescriptions ==
    {
      <<<<"i", "d", "e", "n", "t", "i", "t", "y">>,
        <<"n", "a", "m", "e">>,
        <<"F", "u", "l", "l", " ", "l", "e", "g", "a", "l", " ", "n", "a", "m", "e">>>>,
      <<<<"i", "d", "e", "n", "t", "i", "t", "y">>,
        <<"a", "k", "a">>,
        <<"K", "n", "o", "w", "n", " ", "a", "l", "i", "a", "s", "e", "s", " ", "a", "n", "d", " ", "n", "i", "c", "k", "n", "a", "m", "e", "s">>>>,
      <<<<"i", "d", "e", "n", "t", "i", "t", "y">>,
        <<"p", "r", "o", "n", "o", "u", "n", "s">>,
        <<"P", "e", "r", "s", "o", "n", "a", "l", " ", "p", "r", "o", "n", "o", "u", "n", "s">>>>,
      <<<<"c", "o", "n", "t", "a", "c", "t">>,
        <<"e", "m", "a", "i", "l">>,
        <<"P", "r", "i", "m", "a", "r", "y", " ", "e", "m", "a", "i", "l", " ", "a", "d", "d", "r", "e", "s", "s">>>>,
      <<<<"c", "o", "n", "t", "a", "c", "t">>,
        <<"p", "h", "o", "n", "e">>,
        <<"P", "h", "o", "n", "e", " ", "n", "u", "m", "b", "e", "r">>>>,
      <<<<"w", "e", "b">>,
        <<"g", "i", "t", "h", "u", "b">>,
        <<"G", "i", "t", "H", "u", "b", " ", "u", "s", "e", "r", "n", "a", "m", "e">>>>,
      <<<<"w", "e", "b">>,
        <<"b", "l", "o", "g">>,
        <<"P", "e", "r", "s", "o", "n", "a", "l", " ", "b", "l", "o", "g", " ", "U", "R", "L">>>>,
      <<<<"w", "e", "b">>,
        <<"w", "e", "b", "s", "i", "t", "e">>,
        <<"P", "e", "r", "s", "o", "n", "a", "l", " ", "w", "e", "b", "s", "i", "t", "e", " ", "U", "R", "L">>>>,
      <<<<"w", "e", "b">>,
        <<"m", "a", "s", "t", "o", "d", "o", "n">>,
        <<"M", "a", "s", "t", "o", "d", "o", "n", " ", "h", "a", "n", "d", "l", "e">>>>,
      <<<<"w", "e", "b">>,
        <<"t", "w", "i", "t", "t", "e", "r">>,
        <<"T", "w", "i", "t", "t", "e", "r", "/", "X", " ", "h", "a", "n", "d", "l", "e">>>>,
      <<<<"w", "e", "b">>,
        <<"l", "i", "n", "k", "e", "d", "i", "n">>,
        <<"L", "i", "n", "k", "e", "d", "I", "n", " ", "p", "r", "o", "f", "i", "l", "e", " ", "U", "R", "L">>>>,
      <<<<"w", "e", "b">>,
        <<"b", "l", "u", "e", "s", "k", "y">>,
        <<"B", "l", "u", "e", "s", "k", "y", " ", "h", "a", "n", "d", "l", "e">>>>,
      <<<<"a", "c", "a", "d", "e", "m", "i", "c">>,
        <<"o", "r", "c", "i", "d">>,
        <<"O", "R", "C", "I", "D", " ", "p", "e", "r", "s", "i", "s", "t", "e", "n", "t", " ", "d", "i", "g", "i", "t", "a", "l", " ", "i", "d", "e", "n", "t", "i", "f", "i", "e", "r">>>>,
      <<<<"a", "c", "a", "d", "e", "m", "i", "c">>,
        <<"i", "n", "s", "t", "i", "t", "u", "t", "i", "o", "n">>,
        <<"A", "c", "a", "d", "e", "m", "i", "c", " ", "i", "n", "s", "t", "i", "t", "u", "t", "i", "o", "n">>>>,
      <<<<"a", "c", "a", "d", "e", "m", "i", "c">>,
        <<"t", "i", "t", "l", "e">>,
        <<"A", "c", "a", "d", "e", "m", "i", "c", " ", "t", "i", "t", "l", "e", " ", "o", "r", " ", "p", "o", "s", "i", "t", "i", "o", "n">>>>,
      <<<<"a", "c", "a", "d", "e", "m", "i", "c">>,
        <<"r", "e", "s", "e", "a", "r", "c", "h", "_", "i", "n", "t", "e", "r", "e", "s", "t", "s">>,
        <<"R", "e", "s", "e", "a", "r", "c", "h", " ", "i", "n", "t", "e", "r", "e", "s", "t", " ", "a", "r", "e", "a", "s">>>>,
      <<<<"a", "c", "a", "d", "e", "m", "i", "c">>,
        <<"s", "c", "h", "o", "l", "a", "r">>,
        <<"G", "o", "o", "g", "l", "e", " ", "S", "c", "h", "o", "l", "a", "r", " ", "I", "D">>>>,
      <<<<"e", "d", "u", "c", "a", "t", "i", "o", "n">>,
        <<"d", "e", "g", "r", "e", "e", "s">>,
        <<"C", "o", "m", "p", "l", "e", "t", "e", "d", " ", "d", "e", "g", "r", "e", "e", "s", " ", "w", "i", "t", "h", " ", "i", "n", "s", "t", "i", "t", "u", "t", "i", "o", "n", " ", "a", "n", "d", " ", "y", "e", "a", "r">>>>,
      <<<<"e", "d", "u", "c", "a", "t", "i", "o", "n">>,
        <<"f", "i", "e", "l", "d">>,
        <<"P", "r", "i", "m", "a", "r", "y", " ", "f", "i", "e", "l", "d", " ", "o", "f", " ", "s", "t", "u", "d", "y">>>>,
      <<<<"e", "d", "u", "c", "a", "t", "i", "o", "n">>,
        <<"i", "n", "s", "t", "i", "t", "u", "t", "i", "o", "n">>,
        <<"D", "e", "g", "r", "e", "e", "-", "g", "r", "a", "n", "t", "i", "n", "g", " ", "i", "n", "s", "t", "i", "t", "u", "t", "i", "o", "n">>>>
    }

HasDefaultDesc(cat, key) ==
    \E t \in DefaultDescriptions : t[1] = cat /\ t[2] = key

DefaultDesc(cat, key) ==
    (CHOOSE t \in DefaultDescriptions : t[1] = cat /\ t[2] = key)[3]

----------------------------------------------------------------------------
(* model.Field, model.Category, model.DB *)

Field(key, value, desc, category) ==
    [Key |-> key, Value |-> value, Desc |-> desc, Category |-> category]

\* The zero Field{} of Go.
ZeroField == Field(<<>>, StrVal(<<>>), <<>>, <<>>)

EmptyDB == [Categories |-> <<>>]

\* DB.CategoryNames
CategoryNames(d) == [i \in 1..Len(d.Categories) |-> d.Categories[i].Name]

\* strings.SplitN(path, ".", 2): the index of the first dot, 0 when there is none.
FirstDot(path) ==
    IF ContainsByte(path, ".")
    THEN CHOOSE i \in 1..Len(path) :
             path[i] = "." /\ \A j \in 1..(i - 1) : path[j] # "."
    ELSE 0

\* The lookup with the path split at its last dot.
GetFieldLastDot(d, path) ==
    LET dots == {i \in 1..Len(path) : path[i] = "."}
        dot == IF dots = {} THEN 0 ELSE CHOOSE i \in dots : \A j \in dots : j <= i
        ci == {i \in 1..Len(d.Categories) : d.Categories[i].Name = SubSeq(path, 1, dot - 1)}
        fi == UNION {{<<i, j>> : j \in {k \in 1..Len(d.Categories[i].Fields) :
                        d.Categories[i].Fields[k].Key = SubSeq(path, dot + 1, Len(path))}} :
                     i \in ci}
    IN  IF dot = 0 \/ fi = {}
        THEN [found |-> FALSE, field |-> ZeroField]
        ELSE [found |-> TRUE,
              field |-> LET p == CHOOSE q \in fi : TRUE IN d.Categories[p[1]].Fields[p[2]]]

\* DB.GetField: exact lookup of "category.key"; the first category of that
\* name decides.
GetField(d, path) ==
    LET dot == FirstDot(path)
        catName == SubSeq(path, 1, dot - 1)
        key == SubSeq(path, dot + 1, Len(path))
        cats == d.Categories
        ci == {i \in 1..Len(cats) : cats[i].Name = catName}
    IN  IF dot = 0 \/ ci = {}
        THEN [found |-> FALSE, field |-> ZeroField]
        ELSE LET c == cats[CHOOSE i \in ci : \A j \in ci : i <= j]
                 fi == {i \in 1..Len(c.Fields) : c.Fields[i].Key = key}
             IN  IF fi = {}
                 THEN [found |-> FALSE, field |-> ZeroField]
                 ELSE [found |-> TRUE,
                       field |-> c.Fields[CHOOSE i \in fi : \A j \in fi : i <= j]]

\* DB.AllFields: every field whose key is no description key, in order.
RECURSIVE NonDescFields(_)
NonDescFields(fields) ==
    IF fields = <<>> THEN <<>>
    ELSE (IF IsDescKey(fields[1].Key) THEN <<>> ELSE <<fields[1]>>)
         \o NonDescFields(Tail(fields))

RECURSIVE AllFieldsOf(_)
AllFieldsOf(cats) ==
    IF cats = <<>> THEN <<>>
    ELSE NonDescFields(cats[1].Fields) \o AllFieldsOf(Tail(cats))

AllFields(d) == AllFieldsOf(d.Categories)

----------------------------------------------------------------------------
(* store.LoadFile and store.Load *)

\* A decoded TOML document (map[string]interface{}) is a function from its
\* top-level keys to entries; an entry is a table (a function from keys to
\* values) or any other value.
TableEntry(tbl) == [isTable |-> TRUE, tbl |-> tbl, val |-> StrVal(<<>>)]
ScalarEntry(v) == [isTable |-> FALSE, tbl |-> <<>>, val |-> v]

\* A file on disk: absent, not parseable as TOML, or holding a document.
MissingFile == [state |-> "missing", raw |-> <<>>]
GarbageFile == [state |-> "garbage", raw |-> <<>>]
TomlFile(raw) == [state |-> "ok", raw |-> raw]

\* The Desc of one loaded field: the companion key when it is a string, and
\* the built-in table when that left Desc empty.
LoadDesc(catName, catMap, key) ==
    LET dk == key \o DescSuffix
        explicit == IF dk \in DOMAIN catMap /\ catMap[dk].kind = "string"
                    THEN catMap[dk].str
                    ELSE <<>>
    IN  IF explicit = <<>>
        THEN IF HasDefaultDesc(catName, key) THEN DefaultDesc(catName, key)
             ELSE <<>>
        ELSE explicit

\* The fields of one table: its non-description keys in sorted order.
LoadFields(catName, catMap) ==
    LET keys == SortStrings({k \in DOMAIN catMap : ~HasSuffix(k, DescSuffix)})
    IN  [i \in 1..Len(keys) |->
            Field(keys[i], catMap[keys[i]],
                  LoadDesc(catName, catMap, keys[i]), catName)]

\* The loop without the test for a category that has no field.
RECURSIVE LoadCategoriesKeepEmpty(_, _)
LoadCategoriesKeepEmpty(raw, catNames) ==
    IF catNames = <<>> THEN <<>>
    ELSE LET catName == catNames[1]
             rest == LoadCategoriesKeepEmpty(raw, Tail(catNames))
         IN  IF ~raw[catName].isTable THEN rest
             ELSE <<[Name |-> catName,
                     Fields |-> LoadFields(catName, raw[catName].tbl)]>> \o rest

\* The loop over the sorted top-level names: an entry that is no table is
\* skipped, and so is a table that yields no field.
RECURSIVE LoadCategories(_, _)
LoadCategories(raw, catNames) ==
    IF catNames = <<>> THEN <<>>
    ELSE LET catName == catNames[1]
             rest == LoadCategories(raw, Tail(catNames))
         IN  IF ~raw[catName].isTable THEN rest
             ELSE LET fields == LoadFields(catName, raw[catName].tbl)
                  IN  IF Len(fields) > 0
                      THEN <<[Name |-> catName, Fields |-> fields]>> \o rest
                      ELSE rest

\* store.LoadFile
LoadFile(file) ==
    IF file.state = "missing" THEN [err |-> "read", db |-> EmptyDB]
    ELSE IF file.state = "garbage" THEN [err |-> "parse", db |-> EmptyDB]
    ELSE [err |-> "none",
          db |-> [Categories |->
                     LoadCategories(file.raw, SortStrings(DOMAIN file.raw))]]

----------------------------------------------------------------------------
(* store.Merge *)

\* The value a Go map holds for key k after "for _, x := range xs { m[key(x)] = x }":
\* the last element with that key.
LastIndex(names, k) ==
    CHOOSE i \in 1..Len(names) :
        names[i] = k /\ \A j \in (i + 1)..Len(names) : names[j] # k

FieldKeys(fields) == [i \in 1..Len(fields) |-> fields[i].Key]

SeqRange(xs) == {xs[i] : i \in 1..Len(xs)}

\* mergeCategory with the overlay the wrong way round: global wins.
mergeCategoryGlobalWins(global, local) ==
    LET gk == FieldKeys(global.Fields)
        lk == FieldKeys(local.Fields)
        fieldMap(k) == IF k \in SeqRange(gk)
                       THEN global.Fields[LastIndex(gk, k)]
                       ELSE local.Fields[LastIndex(lk, k)]
        keys == SortStrings(SeqRange(gk) \cup SeqRange(lk))
    IN  [Name |-> global.Name,
         Fields |-> [i \in 1..Len(keys) |-> fieldMap(keys[i])]]

\* mergeCategory that appends local's fields to global's.
mergeCategoryAppend(global, local) ==
    [Name |-> global.Name, Fields |-> global.Fields \o local.Fields]

\* store.mergeCategory
mergeCategory(global, local) ==
    LET gk == FieldKeys(global.Fields)
        lk == FieldKeys(local.Fields)
        fieldMap(k) == IF k \in SeqRange(lk)
                       THEN local.Fields[LastIndex(lk, k)]
                       ELSE global.Fields[LastIndex(gk, k)]
        keys == SortStrings(SeqRange(gk) \cup SeqRange(lk))
    IN  [Name |-> global.Name,
         Fields |-> [i \in 1..Len(keys) |-> fieldMap(keys[i])]]

\* The category names without the sort: global's, then local's new ones.
RECURSIVE AppendNew(_, _)
AppendNew(names, more) ==
    IF more = <<>> THEN names
    ELSE AppendNew(IF more[1] \in SeqRange(names) THEN names
                   ELSE Append(names, more[1]),
                   Tail(more))

MergeCatNamesUnsorted(global, local) ==
    AppendNew(AppendNew(<<>>, CategoryNames(global)), CategoryNames(local))

\* The names collected in catSet, sorted.
MergeCatNames(global, local) ==
    SortStrings(SeqRange(CategoryNames(global)) \cup SeqRange(CategoryNames(local)))

\* store.Merge
Merge(global, local) ==
    LET gn == CategoryNames(global)
        ln == CategoryNames(local)
        catNames == MergeCatNames(global, local)
        pick(catName) ==
            LET gOK == catName \in SeqRange(gn)
                lOK == catName \in SeqRange(ln)
            IN  IF gOK /\ ~lOK THEN global.Categories[LastIndex(gn, catName)]
                ELSE IF ~gOK /\ lOK THEN local.Categories[LastIndex(ln, catName)]
                ELSE mergeCategory(global.Categories[LastIndex(gn, catName)],
                                   local.Categories[LastIndex(ln, catName)])
    IN  [Categories |-> [i \in 1..Len(catNames) |-> pick(catNames[i])]]

\* A Load that falls back to the global database when the local file fails.
LoadGlobalFallback(gfile, hasLocal, lfile) ==
    LET gl == LoadFile(gfile)
        lo == LoadFile(lfile)
    IN  IF gl.err # "none" THEN [err |-> gl.err, db |-> EmptyDB]
        ELSE IF ~hasLocal \/ lo.err # "none" THEN [err |-> "none", db |-> gl.db]
        ELSE [err |-> "none", db |-> Merge(gl.db, lo.db)]

\* store.Load: the global file, merged with the local file when localPath is
\* not empty.  hasLocal is localPath # "".
Load(gfile, hasLocal, lfile) ==
    LET gl == LoadFile(gfile)
        lo == LoadFile(lfile)
    IN  IF gl.err # "none" THEN [err |-> gl.err, db |-> EmptyDB]
        ELSE IF ~hasLocal THEN [err |-> "none", db |-> gl.db]
        ELSE IF lo.err # "none" THEN [err |-> lo.err, db |-> EmptyDB]
        ELSE [err |-> "none", db |-> Merge(gl.db, lo.db)]

----------------------------------------------------------------------------
(* commands.computeDiff *)

DiffEntry(path, status, globalVal, localVal) ==
    [Path |-> path, Status |-> status, GlobalVal |-> globalVal, LocalVal |-> localVal]

StatusOverride == <<"o", "v", "e", "r", "r", "i", "d", "e">>
StatusLocalOnly == <<"l", "o", "c", "a", "l", "-", "o", "n", "l", "y">>

\* The body of the inner loop for one field of local.
DiffField(globalDB, catName, f) ==
    LET path == catName \o <<".">> \o f.Key
        localVal == FormatValue(f.Value)
        got == GetField(globalDB, path)
        globalVal == FormatValue(got.field.Value)
    IN  IF IsDescKey(f.Key) THEN <<>>
        ELSE IF got.found
        THEN IF globalVal # localVal
             THEN <<DiffEntry(path, StatusOverride, globalVal, localVal)>>
             ELSE <<>>
        ELSE <<DiffEntry(path, StatusLocalOnly, <<>>, localVal)>>

RECURSIVE DiffFields(_, _, _)
DiffFields(globalDB, catName, fields) ==
    IF fields = <<>> THEN <<>>
    ELSE DiffField(globalDB, catName, fields[1])
         \o DiffFields(globalDB, catName, Tail(fields))

RECURSIVE DiffCategories(_, _)
DiffCategories(globalDB, cats) ==
    IF cats = <<>> THEN <<>>
    ELSE DiffFields(globalDB, cats[1].Name, cats[1].Fields)
         \o DiffCategories(globalDB, Tail(cats))

computeDiff(globalDB, localDB) == DiffCategories(globalDB, localDB.Categories)

----------------------------------------------------------------------------
(* path/filepath.Match, as DB.Query calls it (Unix: '/' separates, '\' escapes) *)

\* scanChunk: the leading stars are dropped, and the chunk runs to the next
\* star outside a bracket expression.
RECURSIVE StripStars(_)
StripStars(p) == IF p # <<>> /\ p[1] = "*" THEN StripStars(Tail(p)) ELSE p

\* The length of the chunk that starts pattern p (scanned from position i).
RECURSIVE ScanLen(_, _, _)
ScanLen(p, i, inrange) ==
    IF i > Len(p) THEN Len(p)
    ELSE IF p[i] = "\\" THEN ScanLen(p, IF i < Len(p) THEN i + 2 ELSE i + 1, inrange)
    ELSE IF p[i] = "[" THEN ScanLen(p, i + 1, TRUE)
    ELSE IF p[i] = "]" THEN ScanLen(p, i + 1, FALSE)
    ELSE IF p[i] = "*" /\ ~inrange THEN i - 1
    ELSE ScanLen(p, i + 1, inrange)

scanChunk(pattern) ==
    LET p == StripStars(pattern)
        n == ScanLen(p, 1, FALSE)
    IN  [star |-> pattern # <<>> /\ pattern[1] = "*",
         chunk |-> SubSeq(p, 1, n),
         rest |-> SubSeq(p, n + 1, Len(p))]

\* getEsc: one character of a bracket expression, possibly escaped.
getEsc(chunk) ==
    IF chunk = <<>> \/ chunk[1] = "-" \/ chunk[1] = "]"
    THEN [err |-> TRUE, r |-> 0, chunk |-> <<>>]
    ELSE LET c == IF chunk[1] = "\\" THEN Tail(chunk) ELSE chunk
         IN  IF c = <<>> THEN [err |-> TRUE, r |-> 0, chunk |-> <<>>]
             ELSE [err |-> Tail(c) = <<>>, r |-> Ord(c[1]), chunk |-> Tail(c)]

\* The loop over the ranges of a bracket expression; r is the byte of the
\* name under test (0 once the match has failed).
RECURSIVE ClassRanges(_, _, _, _)
ClassRanges(chunk, r, match, nrange) ==
    IF chunk # <<>> /\ chunk[1] = "]" /\ nrange > 0
    THEN [err |-> FALSE, match |-> match, chunk |-> Tail(chunk)]
    ELSE LET lo == getEsc(chunk)
         IN  IF lo.err THEN [err |-> TRUE, match |-> FALSE, chunk |-> <<>>]
             ELSE IF lo.chunk[1] = "-"
             THEN LET hi == getEsc(Tail(lo.chunk))
                  IN  IF hi.err THEN [err |-> TRUE, match |-> FALSE, chunk |-> <<>>]
                      ELSE ClassRanges(hi.chunk, r,
                                       match \/ (lo.r <= r /\ r <= hi.r), nrange + 1)
             ELSE ClassRanges(lo.chunk, r, match \/ lo.r = r, nrange + 1)

\* matchChunk: after the match has failed the chunk is still read to its
\* end, so that a malformed chunk is reported whatever the name.
RECURSIVE matchChunkFrom(_, _, _)
matchChunkFrom(chunk, s, wasFailed) ==
    IF chunk = <<>>
    THEN IF wasFailed THEN [rest |-> <<>>, ok |-> FALSE, err |-> FALSE]
         ELSE [rest |-> s, ok |-> TRUE, err |-> FALSE]
    ELSE LET failed == wasFailed \/ s = <<>>
             s1 == IF failed THEN s ELSE Tail(s)
         IN  IF chunk[1] = "["
             THEN LET r == IF failed THEN 0 ELSE Ord(s[1])
                      c1 == Tail(chunk)
                      negated == c1 # <<>> /\ c1[1] = "^"
                      cls == ClassRanges(IF negated THEN Tail(c1) ELSE c1, r, FALSE, 0)
                  IN  IF cls.err THEN [rest |-> <<>>, ok |-> FALSE, err |-> TRUE]
                      ELSE matchChunkFrom(cls.chunk, s1, failed \/ cls.match = negated)
             ELSE IF chunk[1] = "?"
             THEN matchChunkFrom(Tail(chunk), s1, failed \/ s[1] = "/")
             ELSE LET c == IF chunk[1] = "\\" THEN Tail(chunk) ELSE chunk
                  IN  IF c = <<>> THEN [rest |-> <<>>, ok |-> FALSE, err |-> TRUE]
                      ELSE matchChunkFrom(Tail(c), s1, failed \/ c[1] # s[1])

matchChunk(chunk, s) == matchChunkFrom(chunk, s, FALSE)

\* The check of the rest of the pattern once the match has failed.
RECURSIVE RestMalformed(_)
RestMalformed(pattern) ==
    IF pattern = <<>> THEN FALSE
    ELSE LET sc == scanChunk(pattern)
         IN  matchChunk(sc.chunk, <<>>).err \/ RestMalformed(sc.rest)

\* filepath.Match(pattern, name): [matched, err], err standing for
\* ErrBadPattern.
RECURSIVE Match(_, _)
Match(pattern, name) ==
    IF pattern = <<>> THEN [matched |-> name = <<>>, err |-> FALSE]
    ELSE LET sc == scanChunk(pattern)
             m == matchChunk(sc.chunk, name)
             \* the positions the star may skip to: before the first '/'
             skips == {k \in 1..Len(name) :
                         /\ \A j \in 1..k : name[j] # "/"
                         /\ LET t == matchChunk(sc.chunk, SubSeq(name, k + 1, Len(name)))
                            IN  t.ok /\ ~(sc.rest = <<>> /\ t.rest # <<>>)}
         IN  IF sc.star /\ sc.chunk = <<>>
             THEN [matched |-> ~ContainsByte(name, "/"), err |-> FALSE]
             ELSE IF m.ok /\ (m.rest = <<>> \/ sc.rest # <<>>)
             THEN Match(sc.rest, m.rest)
             ELSE IF m.err THEN [matched |-> FALSE, err |-> TRUE]
             ELSE IF sc.star /\ skips # {}
             THEN LET k == CHOOSE x \in skips : \A y \in skips : x <= y
                  IN  Match(sc.rest,
                            matchChunk(sc.chunk, SubSeq(name, k + 1, Len(name))).rest)
             ELSE [matched |-> FALSE, err |-> RestMalformed(sc.rest)]

----------------------------------------------------------------------------
(* DB.Query and DB.Search *)

\* A comparison without the fallback: a malformed pattern matches nothing.
QueryMatchNoFallback(pat, name) == Match(pat, name).matched

\* One comparison of the dotted branch of Query: the glob match, and string
\* equality when the pattern is malformed.
QueryMatch(pat, name) ==
    LET m == Match(pat, name)
    IN  IF m.err THEN pat = name ELSE m.matched

\* The inner loop of the dotted branch.
RECURSIVE QueryFields(_, _)
QueryFields(fields, keyPattern) ==
    IF fields = <<>> THEN <<>>
    ELSE (IF ~IsDescKey(fields[1].Key) /\ QueryMatch(keyPattern, fields[1].Key)
          THEN <<fields[1]>> ELSE <<>>)
         \o QueryFields(Tail(fields), keyPattern)

\* The outer loop leaving at the first category that matches.
QueryCategoriesFirst(cats, catPattern, keyPattern) ==
    LET hits == {i \in 1..Len(cats) : QueryMatch(catPattern, cats[i].Name)}
    IN  IF hits = {} THEN <<>>
        ELSE QueryFields(cats[CHOOSE i \in hits : \A j \in hits : i <= j].Fields, keyPattern)

\* The outer loop of the dotted branch.
RECURSIVE QueryCategories(_, _, _)
QueryCategories(cats, catPattern, keyPattern) ==
    IF cats = <<>> THEN <<>>
    ELSE (IF QueryMatch(catPattern, cats[1].Name)
          THEN QueryFields(cats[1].Fields, keyPattern) ELSE <<>>)
         \o QueryCategories(Tail(cats), catPattern, keyPattern)

\* The glob loop of the branch without a dot: an error counts as no match.
RECURSIVE GlobCategories(_, _)
GlobCategories(cats, pat) ==
    IF cats = <<>> THEN <<>>
    ELSE (IF ~Match(pat, cats[1].Name).err /\ Match(pat, cats[1].Name).matched
          THEN NonDescFields(cats[1].Fields) ELSE <<>>)
         \o GlobCategories(Tail(cats), pat)

\* DB.Query
Query(d, pat) ==
    LET cats == d.Categories
        exact == {i \in 1..Len(cats) : cats[i].Name = pat}
        dot == FirstDot(pat)
    IN  IF ~ContainsByte(pat, ".")
        THEN IF exact # {}
             THEN NonDescFields(cats[CHOOSE i \in exact : \A j \in exact : i <= j].Fields)
             ELSE GlobCategories(cats, pat)
        ELSE QueryCategories(cats, SubSeq(pat, 1, dot - 1),
                             SubSeq(pat, dot + 1, Len(pat)))

\* strings.ToLower on ASCII
LowerChar(c) == IF Ord(c) >= 65 /\ Ord(c) <= 90 THEN ASCII[Ord(c) + 32 - 31] ELSE c

ToLower(str) == [i \in 1..Len(str) |-> LowerChar(str[i])]

\* strings.Contains
Contains(str, sub) ==
    \E i \in 0..(Len(str) - Len(sub)) : SubSeq(str, i + 1, i + Len(sub)) = sub

\* model.containsLower: q is already lower case.
containsLower(str, q) == Contains(ToLower(str), q)

RECURSIVE SearchFields(_, _)
SearchFields(fields, q) ==
    IF fields = <<>> THEN <<>>
    ELSE (IF /\ ~IsDescKey(fields[1].Key)
             /\ \/ containsLower(fields[1].Key, q)
                \/ containsLower(FormatValue(fields[1].Value), q)
                \/ containsLower(fields[1].Desc, q)
          THEN <<fields[1]>> ELSE <<>>)
         \o SearchFields(Tail(fields), q)

RECURSIVE SearchCategories(_, _)
SearchCategories(cats, q) ==
    IF cats = <<>> THEN <<>>
    ELSE SearchFields(cats[1].Fields, q) \o SearchCategories(Tail(cats), q)

\* Search with the text compared as it was typed.
SearchAsTyped(d, text) == SearchCategories(d.Categories, text)

\* DB.Search
Search(d, text) == SearchCategories(d.Categories, ToLower(text))

----------------------------------------------------------------------------
(* model.FormatTOML *)

NL == "\n"
TAB == "\t"

\* fmt.Sprintf("%q", s): s in double quotes with Go's escapes.
RECURSIVE QuoteBody(_)
QuoteBody(str) ==
    IF str = <<>> THEN <<>>
    ELSE (CASE str[1] = "\"" -> <<"\\", "\"">>
            [] str[1] = "\\" -> <<"\\", "\\">>
            [] str[1] = NL -> <<"\\", "n">>
            [] str[1] = TAB -> <<"\\", "t">>
            [] OTHER -> <<str[1]>>)
         \o QuoteBody(Tail(str))

Quote(str) == <<"\"">> \o QuoteBody(str) \o <<"\"">>

\* model.tomlValue
RECURSIVE tomlValue(_)
tomlValue(v) ==
    CASE v.kind = "string" -> Quote(v.str)
      [] v.kind = "array" ->
            <<"[">> \o JoinComma([i \in 1..Len(v.items) |-> tomlValue(v.items[i])])
            \o <<"]">>
      [] v.kind = "int64" -> IntText(v.num)
      [] v.kind = "float64" -> v.str
      [] v.kind = "bool" -> ScalarText(v)
      [] OTHER -> Quote(ScalarText(v))

\* The key lines of one category.
RECURSIVE FormatTOMLFields(_)
FormatTOMLFields(fields) ==
    IF fields = <<>> THEN <<>>
    ELSE (IF IsDescKey(fields[1].Key) THEN <<>>
          ELSE fields[1].Key \o <<" ", "=", " ">> \o tomlValue(fields[1].Value)
               \o <<NL>>)
         \o FormatTOMLFields(Tail(fields))

RECURSIVE FormatTOMLCategories(_, _)
FormatTOMLCategories(cats, i) ==
    IF i > Len(cats) THEN <<>>
    ELSE (IF i > 1 THEN <<NL>> ELSE <<>>)
         \o <<"[">> \o cats[i].Name \o <<"]", NL>>
         \o FormatTOMLFields(cats[i].Fields)
         \o FormatTOMLCategories(cats, i + 1)

\* model.FormatTOML
FormatTOML(d) == FormatTOMLCategories(d.Categories, 1)

----------------------------------------------------------------------------
(* The JSON formatters: orderedMap, json.MarshalIndent *)

\* strings.Join(parts, sep)
RECURSIVE Join(_, _)
Join(parts, sep) ==
    IF parts = <<>> THEN <<>>
    ELSE IF Len(parts) = 1 THEN parts[1]
    ELSE parts[1] \o sep \o Join(Tail(parts), sep)

\* model.orderedMap: the keys in insertion order and the map of values.
OrderedMap(keys, values) == [kind |-> "omap", keys |-> keys, values |-> values]

\* The value a Go map holds for key k after the loop over xs stored
\* valueOf(x) under keyOf(x): that of the last x with the key.
LastWith(xs, keyOf(_), k) ==
    xs[CHOOSE i \in 1..Len(xs) :
          /\ keyOf(xs[i]) = k
          /\ \A j \in (i + 1)..Len(xs) : keyOf(xs[j]) # k]

FieldKey(f) == f.Key

FieldCategory(f) == f.Category

FieldPath(f) == f.Category \o <<".">> \o f.Key

\* buildFieldMap with a plain Go map in place of the orderedMap: json.Marshal
\* writes the keys of a map in sorted order.
buildFieldMapSorted(fields) ==
    LET kept == NonDescFields(fields)
        keys == SortStrings({kept[i].Key : i \in 1..Len(kept)})
    IN  OrderedMap(keys, [k \in SeqRange(keys) |-> LastWith(kept, FieldKey, k).Value])

\* model.buildFieldMap
buildFieldMap(fields) ==
    LET kept == NonDescFields(fields)
        keys == [i \in 1..Len(kept) |-> kept[i].Key]
    IN  OrderedMap(keys, [k \in SeqRange(keys) |-> LastWith(kept, FieldKey, k).Value])

\* The closure buildFieldMapWithDesc of FormatFieldsJSONWithDesc: each value
\* is a Go map with the keys "value" and "description".
buildFieldMapWithDesc(fields) ==
    LET kept == NonDescFields(fields)
        keys == [i \in 1..Len(kept) |-> kept[i].Key]
        entry(f) == TblVal(<<Pair(<<"v", "a", "l", "u", "e">>, f.Value),
                             Pair(<<"d", "e", "s", "c", "r", "i", "p", "t", "i", "o", "n">>,
                                  StrVal(f.Desc))>>)
    IN  OrderedMap(keys, [k \in SeqRange(keys) |-> entry(LastWith(kept, FieldKey, k))])

CategoryName(cat) == cat.Name

\* model.buildCategoryMap: a category without fields to show is left out.
buildCategoryMap(d) ==
    LET cats == SelectSeq(d.Categories, LAMBDA c : Len(buildFieldMap(c.Fields).keys) > 0)
        keys == [i \in 1..Len(cats) |-> cats[i].Name]
    IN  OrderedMap(keys, [k \in SeqRange(keys) |->
                             buildFieldMap(LastWith(cats, CategoryName, k).Fields)])

\* The categories of a field list in order of first appearance.
RECURSIVE FirstAppearance(_, _)
FirstAppearance(fields, seen) ==
    IF fields = <<>> THEN <<>>
    ELSE IF fields[1].Category \in seen THEN FirstAppearance(Tail(fields), seen)
    ELSE <<fields[1].Category>>
         \o FirstAppearance(Tail(fields), seen \cup {fields[1].Category})

FieldsOfCategory(fields, c) == SelectSeq(fields, LAMBDA f : f.Category = c)

\* model.groupByCategory
groupByCategory(fields) ==
    LET keys == FirstAppearance(fields, {})
    IN  OrderedMap(keys, [k \in SeqRange(keys) |->
                             buildFieldMap(FieldsOfCategory(fields, k))])

\* The grouping loop of FormatFieldsJSONWithDesc.
groupByCategoryWithDesc(fields) ==
    LET keys == FirstAppearance(fields, {})
    IN  OrderedMap(keys, [k \in SeqRange(keys) |->
                             buildFieldMapWithDesc(FieldsOfCategory(fields, k))])

\* model.hasMultipleCategories
hasMultipleCategories(fields) ==
    \E i \in 2..Len(fields) : fields[i].Category # fields[1].Category

\* json.Marshal of a string: quoted, with ", \, control characters and the
\* HTML characters <, > and & escaped.
RECURSIVE JSONStringBody(_)
JSONStringBody(str) ==
    IF str = <<>> THEN <<>>
    ELSE (CASE str[1] = "\"" -> <<"\\", "\"">>
            [] str[1] = "\\" -> <<"\\", "\\">>
            [] str[1] = NL -> <<"\\", "n">>
            [] str[1] = TAB -> <<"\\", "t">>
            [] str[1] = "<" -> <<"\\", "u", "0", "0", "3", "c">>
            [] str[1] = ">" -> <<"\\", "u", "0", "0", "3", "e">>
            [] str[1] = "&" -> <<"\\", "u", "0", "0", "2", "6">>
            [] OTHER -> <<str[1]>>)
         \o JSONStringBody(Tail(str))

JSONString(str) == <<"\"">> \o JSONStringBody(str) \o <<"\"">>

\* json.Marshal fails with UnsupportedValueError on a float that is no
\* number, wherever in the value it is.
RECURSIVE Unsupported(_)
Unsupported(v) ==
    CASE v.kind = "float64" -> v.str \in {NaNText, PosInfText, NegInfText}
      [] v.kind = "array" -> \E i \in 1..Len(v.items) : Unsupported(v.items[i])
      [] v.kind = "table" -> \E i \in 1..Len(v.items) : Unsupported(v.items[i].items[2])
      [] v.kind = "omap" -> \E i \in 1..Len(v.keys) : Unsupported(v.values[v.keys[i]])
      [] OTHER -> FALSE

\* json.Marshal: the compact text. An orderedMap writes its keys in their
\* order (orderedMap.MarshalJSON), a Go map in sorted order.
RECURSIVE Marshal(_)
Marshal(v) ==
    CASE v.kind = "string" -> JSONString(v.str)
      [] v.kind = "int64" -> IntText(v.num)
      [] v.kind = "float64" -> v.str
      [] v.kind = "bool" -> ScalarText(v)
      [] v.kind = "array" ->
            <<"[">> \o Join([i \in 1..Len(v.items) |-> Marshal(v.items[i])], <<",">>)
            \o <<"]">>
      [] v.kind = "table" ->
            LET keys == SortStrings(TblKeys(v))
            IN  <<"{">>
                \o Join([i \in 1..Len(keys) |->
                            JSONString(keys[i]) \o <<":">> \o Marshal(TblGet(v, keys[i]))],
                        <<",">>)
                \o <<"}">>
      [] v.kind = "omap" ->
            <<"{">>
            \o Join([i \in 1..Len(v.keys) |->
                        JSONString(v.keys[i]) \o <<":">> \o Marshal(v.values[v.keys[i]])],
                    <<",">>)
            \o <<"}">>

\* A line break and the indentation of json.Indent(dst, src, "", "  ").
RECURSIVE IndentOf(_)
IndentOf(depth) == IF depth = 0 THEN <<>> ELSE <<" ", " ">> \o IndentOf(depth - 1)

NewlineAt(depth) == <<NL>> \o IndentOf(depth)

\* json.Indent(dst, src, "", "  ") applied to the compact text of v, written
\* by the structure of v: a break after each opening bracket and comma and
\* before each closing bracket of a non-empty object or array, a space
\* after each colon; an empty object or array and a scalar stay as they are.
RECURSIVE Indent(_, _)
Indent(v, depth) ==
    LET sep == <<",">> \o NewlineAt(depth + 1)
        wrap(open, parts, close) ==
            IF Len(parts) = 0 THEN <<open, close>>
            ELSE <<open>> \o NewlineAt(depth + 1) \o Join(parts, sep)
                 \o NewlineAt(depth) \o <<close>>
    IN  CASE v.kind = "array" ->
                wrap("[", [i \in 1..Len(v.items) |-> Indent(v.items[i], depth + 1)], "]")
          [] v.kind = "table" ->
                LET keys == SortStrings(TblKeys(v))
                IN  wrap("{", [i \in 1..Len(keys) |->
                                  JSONString(keys[i]) \o <<":", " ">>
                                  \o Indent(TblGet(v, keys[i]), depth + 1)], "}")
          [] v.kind = "omap" ->
                wrap("{", [i \in 1..Len(v.keys) |->
                              JSONString(v.keys[i]) \o <<":", " ">>
                              \o Indent(v.values[v.keys[i]], depth + 1)], "}")
          [] OTHER -> Marshal(v)

\* json.MarshalIndent(v, "", "  ")
MarshalIndent(v) ==
    IF Unsupported(v) THEN [err |-> TRUE, text |-> <<>>]
    ELSE [err |-> FALSE, text |-> Indent(v, 0)]

\* model.FormatJSON
FormatJSON(d) == MarshalIndent(buildCategoryMap(d))

\* model.FormatCategoryJSON
FormatCategoryJSON(cat) == MarshalIndent(buildFieldMap(cat.Fields))

\* model.FormatFieldsJSON
FormatFieldsJSON(fields) ==
    IF Len(fields) = 0 THEN MarshalIndent(TblVal(<<>>))
    ELSE IF ~hasMultipleCategories(fields) THEN MarshalIndent(buildFieldMap(fields))
    ELSE MarshalIndent(groupByCategory(fields))

\* model.FormatFieldsJSONWithDesc
FormatFieldsJSONWithDesc(fields) ==
    IF Len(fields) = 0 THEN MarshalIndent(TblVal(<<>>))
    ELSE IF ~hasMultipleCategories(fields)
    THEN MarshalIndent(buildFieldMapWithDesc(fields))
    ELSE MarshalIndent(groupByCategoryWithDesc(fields))

\* model.FormatDescJSON
FormatDescJSON(fields) ==
    LET keys == [i \in 1..Len(fields) |-> FieldPath(fields[i])]
    IN  MarshalIndent(OrderedMap(keys,
            [k \in SeqRange(keys) |-> StrVal(LastWith(fields, FieldPath, k).Desc)]))

----------------------------------------------------------------------------
(* toml.Unmarshal, for the documents the program writes and edits: tables  *)
(* named by [headers], key = value lines, comments, blank lines; values    *)
(* are basic and literal strings, decimal integers and floats, booleans    *)
(* and arrays on one line. Arrays of tables, inline tables, multi-line     *)
(* strings, dates and the escapes \b \f \r \u are not among them and are   *)
(* reported as errors.                                                     *)

Spaces == {" ", TAB}

DigitChars == {Digits[i] : i \in 1..Len(Digits)}

\* A character of a bare key: A-Z a-z 0-9 _ -
IsBare(c) ==
    /\ c \in CharSet
    /\ \/ Ord(c) >= 48 /\ Ord(c) <= 57
       \/ Ord(c) >= 65 /\ Ord(c) <= 90
       \/ Ord(c) >= 97 /\ Ord(c) <= 122
       \/ c \in {"_", "-"}

RECURSIVE SkipSpaces(_, _)
SkipSpaces(s, i) ==
    IF i <= Len(s) /\ s[i] \in Spaces THEN SkipSpaces(s, i + 1) ELSE i

\* Nothing but blanks and a comment from position i on.
LineEnds(s, i) == LET j == SkipSpaces(s, i) IN j > Len(s) \/ s[j] = "#"

ScanFail(i) == [ok |-> FALSE, str |-> <<>>, next |-> i]

\* A basic string from the character after its opening quote.
RECURSIVE ScanBasic(_, _, _)
ScanBasic(s, i, acc) ==
    IF i > Len(s) THEN ScanFail(i)
    ELSE IF s[i] = "\"" THEN [ok |-> TRUE, str |-> acc, next |-> i + 1]
    ELSE IF s[i] = "\\"
    THEN IF i + 1 > Len(s) THEN ScanFail(i)
         ELSE CASE s[i + 1] = "\"" -> ScanBasic(s, i + 2, Append(acc, "\""))
                [] s[i + 1] = "\\" -> ScanBasic(s, i + 2, Append(acc, "\\"))
                [] s[i + 1] = "n" -> ScanBasic(s, i + 2, Append(acc, NL))
                [] s[i + 1] = "t" -> ScanBasic(s, i + 2, Append(acc, TAB))
                [] OTHER -> ScanFail(i)
    ELSE ScanBasic(s, i + 1, Append(acc, s[i]))

\* A literal string from the character after its opening quote.
RECURSIVE ScanLiteral(_, _, _)
ScanLiteral(s, i, acc) ==
    IF i > Len(s) THEN ScanFail(i)
    ELSE IF s[i] = "'" THEN [ok |-> TRUE, str |-> acc, next |-> i + 1]
    ELSE ScanLiteral(s, i + 1, Append(acc, s[i]))

RECURSIVE BareEnd(_, _)
BareEnd(s, i) == IF i <= Len(s) /\ IsBare(s[i]) THEN BareEnd(s, i + 1) ELSE i

\* A key, bare, quoted or dotted, from position i0: its parts and the
\* position after it.
RECURSIVE ParseKey(_, _, _)
ParseKey(s, i0, path) ==
    LET i == SkipSpaces(s, i0)
        part == IF i > Len(s) THEN ScanFail(i)
                ELSE IF s[i] = "\"" THEN ScanBasic(s, i + 1, <<>>)
                ELSE IF s[i] = "'" THEN ScanLiteral(s, i + 1, <<>>)
                ELSE [ok |-> BareEnd(s, i) > i,
                      str |-> SubSeq(s, i, BareEnd(s, i) - 1),
                      next |-> BareEnd(s, i)]
        j == SkipSpaces(s, part.next)
    IN  IF ~part.ok THEN [ok |-> FALSE, path |-> <<>>, next |-> i]
        ELSE IF j <= Len(s) /\ s[j] = "."
        THEN ParseKey(s, j + 1, Append(path, part.str))
        ELSE [ok |-> TRUE, path |-> Append(path, part.str), next |-> j]

\* The end of a number or boolean that starts at i.
RECURSIVE TokenEnd(_, _)
TokenEnd(s, i) ==
    IF i <= Len(s) /\ s[i] \notin (Spaces \cup {",", "]", "#"})
    THEN TokenEnd(s, i + 1) ELSE i

IsDigits(x) == x # <<>> /\ \A i \in 1..Len(x) : x[i] \in DigitChars

\* Decimal digits without a leading zero.
IsDecimal(x) == IsDigits(x) /\ (Len(x) = 1 \/ x[1] # "0")

Unsigned(tok) ==
    IF tok # <<>> /\ tok[1] \in {"+", "-"} THEN Tail(tok) ELSE tok

IsInteger(tok) == IsDecimal(Unsigned(tok))

DotAt(x) == IF \E i \in 1..Len(x) : x[i] = "."
            THEN CHOOSE i \in 1..Len(x) : x[i] = "." /\ \A j \in 1..(i - 1) : x[j] # "."
            ELSE 0

IsFloat(tok) ==
    LET x == Unsigned(tok)
        d == DotAt(x)
    IN  /\ d > 0
        /\ IsDecimal(SubSeq(x, 1, d - 1))
        /\ IsDigits(SubSeq(x, d + 1, Len(x)))

RECURSIVE NatOf(_)
NatOf(x) ==
    IF x = <<>> THEN 0
    ELSE 10 * NatOf(SubSeq(x, 1, Len(x) - 1))
         + ((CHOOSE i \in 1..10 : Digits[i] = x[Len(x)]) - 1)

IntOf(tok) == IF tok[1] = "-" THEN 0 - NatOf(Unsigned(tok)) ELSE NatOf(Unsigned(tok))

RECURSIVE StripZeros(_)
StripZeros(x) ==
    IF x # <<>> /\ x[Len(x)] = "0" THEN StripZeros(SubSeq(x, 1, Len(x) - 1)) ELSE x

\* The float64 a decimal names, as fmt.Sprint prints it: no plus sign, no
\* trailing zeros, no point before an empty fraction.
FloatOf(tok) ==
    LET x == Unsigned(tok)
        d == DotAt(x)
        frac == StripZeros(SubSeq(x, d + 1, Len(x)))
    IN  (IF tok[1] = "-" THEN <<"-">> ELSE <<>>)
        \o SubSeq(x, 1, d - 1)
        \o (IF frac = <<>> THEN <<>> ELSE <<".">> \o frac)

ValueFail(i) == [ok |-> FALSE, val |-> StrVal(<<>>), next |-> i]

\* A value from position i0, and an array from the position after its "["
\* or after a comma.
RECURSIVE ParseValue(_, _)
RECURSIVE ParseArray(_, _, _)
ParseValue(s, i0) ==
    LET i == SkipSpaces(s, i0)
        e == TokenEnd(s, i)
        tok == SubSeq(s, i, e - 1)
        str == IF s[i] = "\"" THEN ScanBasic(s, i + 1, <<>>)
               ELSE ScanLiteral(s, i + 1, <<>>)
    IN  IF i > Len(s) THEN ValueFail(i)
        ELSE IF s[i] \in {"\"", "'"}
        THEN [ok |-> str.ok, val |-> StrVal(str.str), next |-> str.next]
        ELSE IF s[i] = "[" THEN ParseArray(s, i + 1, <<>>)
        ELSE IF tok = <<"t", "r", "u", "e">>
        THEN [ok |-> TRUE, val |-> BoolVal(TRUE), next |-> e]
        ELSE IF tok = <<"f", "a", "l", "s", "e">>
        THEN [ok |-> TRUE, val |-> BoolVal(FALSE), next |-> e]
        ELSE IF IsInteger(tok)
        THEN [ok |-> TRUE, val |-> IntVal(IntOf(tok)), next |-> e]
        ELSE IF IsFloat(tok)
        THEN [ok |-> TRUE, val |-> FloatVal(FloatOf(tok)), next |-> e]
        ELSE IF Unsigned(tok) = <<"n", "a", "n">>
        THEN [ok |-> TRUE, val |-> FloatVal(NaNText), next |-> e]
        ELSE IF Unsigned(tok) = <<"i", "n", "f">>
        THEN [ok |-> TRUE,
              val |-> FloatVal(IF tok[1] = "-" THEN NegInfText ELSE PosInfText),
              next |-> e]
        ELSE ValueFail(i)

ParseArray(s, i0, acc) ==
    LET i == SkipSpaces(s, i0)
        v == ParseValue(s, i)
        j == SkipSpaces(s, v.next)
    IN  IF i > Len(s) THEN ValueFail(i)
        ELSE IF s[i] = "]" THEN [ok |-> TRUE, val |-> ArrVal(acc), next |-> i + 1]
        ELSE IF ~v.ok \/ j > Len(s) THEN ValueFail(i)
        ELSE IF s[j] = "," THEN ParseArray(s, j + 1, Append(acc, v.val))
        ELSE IF s[j] = "]"
        THEN [ok |-> TRUE, val |-> ArrVal(Append(acc, v.val)), next |-> j + 1]
        ELSE ValueFail(i)

RECURSIVE GetPath(_, _)
GetPath(t, path) ==
    IF path = <<>> THEN [found |-> TRUE, val |-> t]
    ELSE IF t.kind # "table" \/ path[1] \notin TblKeys(t)
    THEN [found |-> FALSE, val |-> t]
    ELSE GetPath(TblGet(t, path[1]), Tail(path))

RECURSIVE SetPath(_, _, _)
SetPath(t, path, v) ==
    IF Len(path) = 1 THEN TblPut(t, path[1], v)
    ELSE TblPut(t, path[1],
                SetPath(IF path[1] \in TblKeys(t) THEN TblGet(t, path[1])
                        ELSE TblVal(<<>>),
                        Tail(path), v))

\* Every name on the way to path that exists is a table.
PathClear(root, path, upto) ==
    \A n \in 1..upto :
        LET r == GetPath(root, SubSeq(path, 1, n))
        IN  r.found => r.val.kind = "table"

\* The parser's state: the document so far, the table the next keys go to,
\* and the tables already defined.
ParseStart == [ok |-> TRUE, root |-> TblVal(<<>>), cur |-> <<>>, defined |-> {}]

ParseFail(st) == [st EXCEPT !.ok = FALSE]

\* A [table] header; s starts with "[".
ParseHeader(st, s) ==
    LET k == ParseKey(s, 2, <<>>)
    IN  IF /\ k.ok
           /\ k.next <= Len(s)
           /\ s[k.next] = "]"
           /\ LineEnds(s, k.next + 1)
           /\ PathClear(st.root, k.path, Len(k.path))
           /\ k.path \notin st.defined
        THEN [ok |-> TRUE,
              root |-> IF GetPath(st.root, k.path).found THEN st.root
                       ELSE SetPath(st.root, k.path, TblVal(<<>>)),
              cur |-> k.path,
              defined |-> st.defined \cup {k.path}]
        ELSE ParseFail(st)

\* A key = value line.
ParseKeyVal(st, s) ==
    LET k == ParseKey(s, 1, <<>>)
        v == ParseValue(s, k.next + 1)
        full == st.cur \o k.path
    IN  IF /\ k.ok
           /\ k.next <= Len(s)
           /\ s[k.next] = "="
           /\ v.ok
           /\ LineEnds(s, v.next)
           /\ PathClear(st.root, full, Len(full) - 1)
           /\ ~GetPath(st.root, full).found
        THEN [ok |-> TRUE,
              root |-> SetPath(st.root, full, v.val),
              cur |-> st.cur,
              defined |-> st.defined
                          \cup {SubSeq(full, 1, n) : n \in (Len(st.cur) + 1)..(Len(full) - 1)}]
        ELSE ParseFail(st)

ParseLine(st, line) ==
    LET i == SkipSpaces(line, 1)
        s == SubSeq(line, i, Len(line))
    IN  IF ~st.ok \/ s = <<>> THEN st
        ELSE IF s[1] = "#" THEN st
        ELSE IF s[1] = "[" THEN ParseHeader(st, s)
        ELSE ParseKeyVal(st, s)

RECURSIVE ParseLines(_, _)
ParseLines(st, lines) ==
    IF lines = <<>> THEN st
    ELSE ParseLines(ParseLine(st, lines[1]), Tail(lines))

\* strings.Split(text, "\n")
RECURSIVE SplitLines(_, _)
SplitLines(text, line) ==
    IF text = <<>> THEN <<line>>
    ELSE IF text[1] = NL THEN <<line>> \o SplitLines(Tail(text), <<>>)
    ELSE SplitLines(Tail(text), Append(line, text[1]))

\* The map[string]interface{} of a parsed document.
RawOf(root) ==
    [name \in TblKeys(root) |->
        LET v == TblGet(root, name)
        IN  IF v.kind = "table"
            THEN TableEntry([k \in TblKeys(v) |-> TblGet(v, k)])
            ELSE ScalarEntry(v)]

\* toml.Unmarshal(data, &raw), as the file LoadFile goes on with.
Unmarshal(text) ==
    LET st == ParseLines(ParseStart, SplitLines(text, <<>>))
    IN  IF st.ok THEN TomlFile(RawOf(st.root)) ELSE GarbageFile

----------------------------------------------------------------------------
(* The JSON grammar (RFC 8259), as a reader of the formatters' text uses it *)

JSONSpaces == {" ", NL, TAB}

HexChars == DigitChars \cup {"a", "b", "c", "d", "e", "f", "A", "B", "C", "D", "E", "F"}

RECURSIVE JSONSkip(_, _)
JSONSkip(s, i) ==
    IF i <= Len(s) /\ s[i] \in JSONSpaces THEN JSONSkip(s, i + 1) ELSE i

HexDigit(c) ==
    IF c \in DigitChars THEN (CHOOSE i \in 1..10 : Digits[i] = c) - 1
    ELSE IF c \in {"a", "A"} THEN 10
    ELSE IF c \in {"b", "B"} THEN 11
    ELSE IF c \in {"c", "C"} THEN 12
    ELSE IF c \in {"d", "D"} THEN 13
    ELSE IF c \in {"e", "E"} THEN 14
    ELSE 15

\* The character \uXXXX names; one outside printable ASCII is kept as its
\* escape.
Unescape(hex) ==
    LET n == 4096 * HexDigit(hex[1]) + 256 * HexDigit(hex[2])
             + 16 * HexDigit(hex[3]) + HexDigit(hex[4])
    IN  IF n >= 32 /\ n <= 126 THEN <<ASCII[n - 31]>> ELSE <<"\\", "u">> \o hex

\* A string from the character after its opening quote.
RECURSIVE JSONScanString(_, _, _)
JSONScanString(s, i, acc) ==
    IF i > Len(s) \/ s[i] \in {NL, TAB} THEN ScanFail(i)
    ELSE IF s[i] = "\"" THEN [ok |-> TRUE, str |-> acc, next |-> i + 1]
    ELSE IF s[i] # "\\" THEN JSONScanString(s, i + 1, Append(acc, s[i]))
    ELSE IF i + 1 > Len(s) THEN ScanFail(i)
    ELSE CASE s[i + 1] \in {"\"", "\\", "/"} ->
                 JSONScanString(s, i + 2, Append(acc, s[i + 1]))
           [] s[i + 1] = "n" -> JSONScanString(s, i + 2, Append(acc, NL))
           [] s[i + 1] = "t" -> JSONScanString(s, i + 2, Append(acc, TAB))
           [] s[i + 1] \in {"b", "f", "r"} ->
                 JSONScanString(s, i + 2, acc \o <<"\\", s[i + 1]>>)
           [] s[i + 1] = "u" ->
                 IF i + 5 <= Len(s) /\ \A j \in (i + 2)..(i + 5) : s[j] \in HexChars
                 THEN JSONScanString(s, i + 6, acc \o Unescape(SubSeq(s, i + 2, i + 5)))
                 ELSE ScanFail(i)
           [] OTHER -> ScanFail(i)

RECURSIVE JSONTokenEnd(_, _)
JSONTokenEnd(s, i) ==
    IF i <= Len(s) /\ s[i] \notin (JSONSpaces \cup {",", "]", "}", ":", "\"", "[", "{"})
    THEN JSONTokenEnd(s, i + 1) ELSE i

\* number = [ "-" ] int [ "." digits ] [ ("e" / "E") [ "+" / "-" ] digits ]
IsJSONNumber(tok) ==
    LET x == IF tok # <<>> /\ tok[1] = "-" THEN Tail(tok) ELSE tok
        ePos == {i \in 1..Len(x) : x[i] \in {"e", "E"}}
        e == IF ePos = {} THEN Len(x) + 1 ELSE CHOOSE i \in ePos : \A j \in ePos : i <= j
        mant == SubSeq(x, 1, e - 1)
        expo == SubSeq(x, e + 1, Len(x))
        d == DotAt(mant)
    IN  /\ IF d = 0 THEN IsDecimal(mant)
           ELSE IsDecimal(SubSeq(mant, 1, d - 1)) /\ IsDigits(SubSeq(mant, d + 1, Len(mant)))
        /\ e <= Len(x) => IsDigits(IF expo # <<>> /\ expo[1] \in {"+", "-"}
                                   THEN Tail(expo) ELSE expo)

JSONAtom(kind, next) ==
    [ok |-> TRUE, val |-> [kind |-> kind, keys |-> <<>>, vals |-> <<>>], next |-> next]

JSONFail(i) ==
    [ok |-> FALSE, val |-> [kind |-> "none", keys |-> <<>>, vals |-> <<>>], next |-> i]

\* A value from position i0; the members of an object and the elements of
\* an array from the position after the opening bracket or a comma. An
\* object keeps its keys in the order of the text.
RECURSIVE JSONValue(_, _)
RECURSIVE JSONMembers(_, _, _, _)
RECURSIVE JSONElements(_, _, _)
JSONValue(s, i0) ==
    LET i == JSONSkip(s, i0)
        e == JSONTokenEnd(s, i)
        tok == SubSeq(s, i, e - 1)
        str == JSONScanString(s, i + 1, <<>>)
        first == JSONSkip(s, i + 1)
    IN  IF i > Len(s) THEN JSONFail(i)
        ELSE IF s[i] = "\"" THEN IF str.ok THEN JSONAtom("string", str.next) ELSE JSONFail(i)
        ELSE IF s[i] = "{"
        THEN IF first <= Len(s) /\ s[first] = "}"
             THEN [ok |-> TRUE, val |-> [kind |-> "object", keys |-> <<>>, vals |-> <<>>],
                   next |-> first + 1]
             ELSE JSONMembers(s, first, <<>>, <<>>)
        ELSE IF s[i] = "["
        THEN IF first <= Len(s) /\ s[first] = "]"
             THEN [ok |-> TRUE, val |-> [kind |-> "array", keys |-> <<>>, vals |-> <<>>],
                   next |-> first + 1]
             ELSE JSONElements(s, first, <<>>)
        ELSE IF tok \in {<<"t", "r", "u", "e">>, <<"f", "a", "l", "s", "e">>,
                        <<"n", "u", "l", "l">>}
        THEN JSONAtom("literal", e)
        ELSE IF IsJSONNumber(tok) THEN JSONAtom("number", e)
        ELSE JSONFail(i)

JSONMembers(s, i0, keys, vals) ==
    LET i == JSONSkip(s, i0)
        k == JSONScanString(s, i + 1, <<>>)
        c == JSONSkip(s, k.next)
        v == JSONValue(s, c + 1)
        j == JSONSkip(s, v.next)
    IN  IF i > Len(s) \/ s[i] # "\"" THEN JSONFail(i)
        ELSE IF ~k.ok \/ c > Len(s) \/ s[c] # ":" THEN JSONFail(i)
        ELSE IF ~v.ok \/ j > Len(s) THEN JSONFail(i)
        ELSE IF s[j] = "," THEN JSONMembers(s, j + 1, Append(keys, k.str), Append(vals, v.val))
        ELSE IF s[j] = "}"
        THEN [ok |-> TRUE,
              val |-> [kind |-> "object", keys |-> Append(keys, k.str),
                       vals |-> Append(vals, v.val)],
              next |-> j + 1]
        ELSE JSONFail(i)

JSONElements(s, i0, vals) ==
    LET v == JSONValue(s, i0)
        j == JSONSkip(s, v.next)
    IN  IF ~v.ok \/ j > Len(s) THEN JSONFail(i0)
        ELSE IF s[j] = "," THEN JSONElements(s, j + 1, Append(vals, v.val))
        ELSE IF s[j] = "]"
        THEN [ok |-> TRUE,
              val |-> [kind |-> "array", keys |-> <<>>, vals |-> Append(vals, v.val)],
              next |-> j + 1]
        ELSE JSONFail(i0)

\* The value a JSON text holds; ok is json.Valid(text).
JSONParse(text) ==
    LET r == JSONValue(text, 1)
    IN  IF r.ok /\ JSONSkip(text, r.next) > Len(text) THEN r ELSE JSONFail(r.next)

----------------------------------------------------------------------------
(* The commands that read the store. Standard output is a pipe, not a     *)
(* terminal (isTTY() is false), and --format is absent, json, toml or a   *)
(* name that is no format.                                                 *)

\* commands.loadDB: the global file must exist; the local file counts when
\* FindLocalFile finds it.
loadDB ==
    IF globalFile.state = "missing" THEN [err |-> "nodeets", db |-> EmptyDB]
    ELSE Load(globalFile, localFile.state # "missing", localFile)

\* commands.validFormats
ValidFormats == {"table", "json", "toml", "yaml", "env"}

\* commands.validateFormat: no error
validateFormat(flag) == flag = "" \/ flag \in ValidFormats

\* commands.resolveFormat
resolveFormat(flag) == IF flag # "" THEN flag ELSE "json"

\* strings.ContainsAny
ContainsAny(str, chars) == \E i \in 1..Len(str) : str[i] \in chars

\* DB.GetCategory
GetCategory(d, name) ==
    LET ci == {i \in 1..Len(d.Categories) : d.Categories[i].Name = name}
    IN  IF ci = {} THEN [found |-> FALSE, cat |-> [Name |-> <<>>, Fields |-> <<>>]]
        ELSE [found |-> TRUE,
              cat |-> d.Categories[CHOOSE i \in ci : \A j \in ci : i <= j]]

\* DB.DescribeField
DescribeField(d, path) ==
    IF GetField(d, path).found THEN GetField(d, path).field.Desc ELSE <<>>

Described(fields) == SelectSeq(NonDescFields(fields), LAMBDA f : f.Desc # <<>>)

\* DB.DescribeCategory
DescribeCategory(d, name) ==
    IF GetCategory(d, name).found THEN Described(GetCategory(d, name).cat.Fields)
    ELSE <<>>

RECURSIVE DescribedOf(_)
DescribedOf(cats) ==
    IF cats = <<>> THEN <<>>
    ELSE Described(cats[1].Fields) \o DescribedOf(Tail(cats))

\* DB.AllDescriptions
AllDescriptions(d) == DescribedOf(d.Categories)

\* model.FieldsToDB
FieldsToDB(fields) ==
    LET names == FirstAppearance(fields, {})
    IN  [Categories |-> [i \in 1..Len(names) |->
                            [Name |-> names[i],
                             Fields |-> FieldsOfCategory(fields, names[i])]]]

----------------------------------------------------------------------------
(* Line-level editing of a store file: SetValue, RemoveValue, RemoveCategory *)

\* A file on disk: a regular file with its content, no file, or a file
\* that cannot be read.
TextFile(content) == [state |-> "file", content |-> content]
NoFile == [state |-> "missing", content |-> <<>>]
DeniedFile == [state |-> "denied", content |-> <<>>]

\* strings.TrimRight(content, "\n")
RECURSIVE TrimRightNL(_)
TrimRightNL(content) ==
    IF content # <<>> /\ content[Len(content)] = NL
    THEN TrimRightNL(SubSeq(content, 1, Len(content) - 1))
    ELSE content

\* store.readLines
readLines(file) ==
    IF file.state # "file" THEN [err |-> file.state, lines |-> <<>>]
    ELSE IF file.content = <<>> THEN [err |-> "none", lines |-> <<>>]
    ELSE [err |-> "none", lines |-> SplitLines(TrimRightNL(file.content), <<>>)]

\* store.writeLines
writeLines(lines) == TextFile(Join(lines, <<NL>>) \o <<NL>>)

\* strings.TrimLeft(str, " \t")
RECURSIVE TrimLeft(_)
TrimLeft(str) == IF str # <<>> /\ str[1] \in Spaces THEN TrimLeft(Tail(str)) ELSE str

RECURSIVE TrimRight(_)
TrimRight(str) ==
    IF str # <<>> /\ str[Len(str)] \in Spaces
    THEN TrimRight(SubSeq(str, 1, Len(str) - 1))
    ELSE str

\* strings.TrimSpace
TrimSpace(str) == TrimRight(TrimLeft(str))

\* fmt.Sprintf("[%s]", category)
HeaderLine(category) == <<"[">> \o category \o <<"]">>

\* store.findSection: the index of the first line that is the header, 0 for
\* Go's -1; lines are counted from 1.
findSection(lines, category) ==
    LET hits == {i \in 1..Len(lines) : TrimSpace(lines[i]) = HeaderLine(category)}
    IN  IF hits = {} THEN 0 ELSE CHOOSE i \in hits : \A j \in hits : i <= j

\* store.findNextSection: the first header line after afterLine, or one
\* past the last line.
findNextSection(lines, afterLine) ==
    LET hits == {i \in (afterLine + 1)..Len(lines) :
                    /\ HasPrefix(TrimSpace(lines[i]), <<"[">>)
                    /\ HasSuffix(TrimSpace(lines[i]), <<"]">>)}
    IN  IF hits = {} THEN Len(lines) + 1 ELSE CHOOSE i \in hits : \A j \in hits : i <= j

\* findKey without the look at what follows the key.
findKeyByPrefix(lines, start, end, key) ==
    LET hits == {i \in start..(end - 1) : HasPrefix(TrimSpace(lines[i]), key)}
    IN  IF hits = {} THEN 0 ELSE CHOOSE i \in hits : \A j \in hits : i <= j

\* store.findKey: the first line from start up to, not including, end that
\* reads key, blanks, "="; 0 for Go's -1.
findKey(lines, start, end, key) ==
    LET hits == {i \in start..(end - 1) :
                    /\ HasPrefix(TrimSpace(lines[i]), key)
                    /\ HasPrefix(TrimLeft(SubSeq(TrimSpace(lines[i]), Len(key) + 1,
                                                 Len(TrimSpace(lines[i])))),
                                 <<"=">>)}
    IN  IF hits = {} THEN 0 ELSE CHOOSE i \in hits : \A j \in hits : i <= j

\* store.formatValue
formatValue(value) ==
    IF HasPrefix(value, <<"[">>) THEN value
    ELSE IF HasPrefix(value, <<"\"">>) THEN value
    ELSE Quote(value)

\* fmt.Sprintf("%s = %s", key, formatValue(value))
KeyLine(key, value) == key \o <<" ", "=", " ">> \o formatValue(value)

\* SetValue on a file that exists but has no section for the category.
SetAppended(lines, category, key, value) ==
    (IF Len(lines) > 0 /\ TrimSpace(lines[Len(lines)]) # <<>>
     THEN Append(lines, <<>>) ELSE lines)
    \o <<HeaderLine(category), KeyLine(key, value)>>

\* SetValue on a file that has the section at sectionIdx.
SetInSection(lines, sectionIdx, nextSection, keyIdx, key, value) ==
    IF keyIdx # 0 THEN [lines EXCEPT ![keyIdx] = KeyLine(key, value)]
    ELSE SubSeq(lines, 1, nextSection - 1) \o <<KeyLine(key, value)>>
         \o SubSeq(lines, nextSection, Len(lines))

SetLines(lines, sectionIdx, category, key, value) ==
    IF sectionIdx = 0 THEN SetAppended(lines, category, key, value)
    ELSE SetInSection(lines, sectionIdx, findNextSection(lines, sectionIdx),
                      findKey(lines, sectionIdx + 1,
                              findNextSection(lines, sectionIdx), key),
                      key, value)

SetRead(file, r, category, key, value) ==
    IF r.err = "missing"
    THEN [err |-> "none",
          file |-> writeLines(<<HeaderLine(category), KeyLine(key, value)>>)]
    ELSE IF r.err # "none" THEN [err |-> r.err, file |-> file]
    ELSE [err |-> "none",
          file |-> writeLines(SetLines(r.lines, findSection(r.lines, category),
                                       category, key, value))]

\* store.SetValue: its error and the file it leaves.
SetValue(file, category, key, value) ==
    SetRead(file, readLines(file), category, key, value)

\* RemoveValue once the key line is gone: a section left without keys goes
\* too.
RemoveEmptied(lines, sectionIdx, nextSection) ==
    IF \A i \in (sectionIdx + 1)..(nextSection - 1) :
          TrimSpace(lines[i]) = <<>> \/ HasPrefix(TrimSpace(lines[i]), <<"#">>)
    THEN SubSeq(lines, 1, sectionIdx - 1) \o SubSeq(lines, nextSection, Len(lines))
    ELSE lines

RemoveKeyLine(lines, keyIdx) ==
    SubSeq(lines, 1, keyIdx - 1) \o SubSeq(lines, keyIdx + 1, Len(lines))

\* RemoveValue that writes the lines it read back before it reports a
\* missing key.
RemoveAtRewriting(file, lines, sectionIdx, keyIdx) ==
    IF keyIdx = 0 THEN [err |-> "nokey", file |-> writeLines(lines)]
    ELSE [err |-> "none",
          file |-> writeLines(RemoveEmptied(RemoveKeyLine(lines, keyIdx), sectionIdx,
                                  findNextSection(RemoveKeyLine(lines, keyIdx),
                                                  sectionIdx)))]

RemoveAt(file, lines, sectionIdx, keyIdx) ==
    IF keyIdx = 0 THEN [err |-> "nokey", file |-> file]
    ELSE [err |-> "none",
          file |-> writeLines(RemoveEmptied(RemoveKeyLine(lines, keyIdx), sectionIdx,
                                  findNextSection(RemoveKeyLine(lines, keyIdx),
                                                  sectionIdx)))]

RemoveRead(file, r, sectionIdx, key) ==
    IF r.err # "none" THEN [err |-> r.err, file |-> file]
    ELSE IF sectionIdx = 0 THEN [err |-> "nocategory", file |-> file]
    ELSE RemoveAt(file, r.lines, sectionIdx,
                  findKey(r.lines, sectionIdx + 1,
                          findNextSection(r.lines, sectionIdx), key))

\* store.RemoveValue
RemoveValue(file, category, key) ==
    RemoveRead(file, readLines(file), findSection(readLines(file).lines, category), key)

RemoveSection(file, lines, sectionIdx, nextSection) ==
    IF sectionIdx = 0 THEN [err |-> "nocategory", file |-> file]
    ELSE [err |-> "none",
          file |-> writeLines(SubSeq(lines, 1, sectionIdx - 1)
                              \o SubSeq(lines, nextSection, Len(lines)))]

RemoveCategoryRead(file, r, category) ==
    IF r.err # "none" THEN [err |-> r.err, file |-> file]
    ELSE RemoveSection(file, r.lines, findSection(r.lines, category),
                       findNextSection(r.lines, findSection(r.lines, category)))

\* store.RemoveCategory
RemoveCategory(file, category) == RemoveCategoryRead(file, readLines(file), category)

\* The end of a command: what it found and printed, and main's exit status.
Finish(name, e, d, a, res, text, form, status) ==
    /\ op' = name
    /\ err' = e
    /\ db' = d
    /\ arg' = a
    /\ results' = res
    /\ out' = text
    /\ format' = form
    /\ code' = status
    /\ UNCHANGED <<globalFile, localFile, g, l, entries, disk, prior>>

\* A command that returns a plain error: main exits with status 1.
Fail(name, e, a) == Finish(name, e, EmptyDB, a, <<>>, <<>>, "none", 1)

\* Println of a formatter's JSON, or its error.
PrintJSON(name, d, a, res, j) ==
    IF j.err THEN Finish(name, "marshal", d, a, res, <<>>, "none", 1)
    ELSE Finish(name, "none", d, a, res, j.text \o <<NL>>, "json", 0)

\* getCmd.RunE once the store is loaded and queried.
GetPrint(d, p, fields, flagJSON) ==
    IF Len(fields) = 0 THEN Finish("Query", "none", d, p, fields, <<>>, "none", 2)
    ELSE IF /\ Len(fields) = 1
            /\ ContainsByte(p, ".") /\ ~ContainsAny(p, {"*", "?", "["})
            /\ ~flagJSON
    THEN Finish("Query", "none", d, p, fields,
                FormatValue(fields[1].Value) \o <<NL>>, "value", 0)
    ELSE PrintJSON("Query", d, p, fields, FormatFieldsJSON(fields))

GetLoaded(r, p, flagJSON) ==
    IF r.err # "none" THEN Fail("Query", r.err, p)
    ELSE GetPrint(r.db, p, Query(r.db, p), flagJSON)

\* getCmd.RunE
GetCommand(patterns) ==
    /\ op = "init"
    /\ \E p \in patterns, flagJSON \in BOOLEAN : GetLoaded(loadDB, p, flagJSON)

\* searchCmd.RunE once the store is loaded and searched.
SearchPrint(d, text, fields, flag) ==
    IF Len(fields) = 0 THEN Finish("Search", "none", d, text, fields, <<>>, "none", 2)
    ELSE IF resolveFormat(flag) = "toml"
    THEN Finish("Search", "none", d, text, fields, FormatTOML(FieldsToDB(fields)),
                "toml", 0)
    ELSE PrintJSON("Search", d, text, fields, FormatFieldsJSON(fields))

SearchLoaded(r, text, flag) ==
    IF ~validateFormat(flag) THEN Fail("Search", "format", text)
    ELSE IF r.err # "none" THEN Fail("Search", r.err, text)
    ELSE SearchPrint(r.db, text, Search(r.db, text), flag)

\* searchCmd.RunE
SearchCommand(texts, flags) ==
    /\ op = "init"
    /\ \E text \in texts, flag \in flags : SearchLoaded(loadDB, text, flag)

\* exportCmd.RunE
ExportCommand(flags) ==
    /\ op = "init"
    /\ \E flag \in flags :
          LET r == loadDB
          IN  IF ~validateFormat(flag) THEN Fail("Export", "format", <<>>)
              ELSE IF r.err # "none" THEN Fail("Export", r.err, <<>>)
              ELSE IF resolveFormat(flag) = "toml"
              THEN Finish("Export", "none", r.db, <<>>, <<>>, FormatTOML(r.db), "toml", 0)
              ELSE PrintJSON("Export", r.db, <<>>, <<>>, FormatJSON(r.db))

\* showCmd.RunE showing one category.
ShowCategory(d, args, c, toml) ==
    IF ~c.found THEN Fail("Show", "nocategory", args)
    ELSE IF toml
    THEN Finish("Show", "none", d, args, <<>>, FormatTOML([Categories |-> <<c.cat>>]),
                "toml", 0)
    ELSE PrintJSON("Show", d, args, <<>>, FormatCategoryJSON(c.cat))

\* showCmd.RunE showing the whole store.
ShowAll(d, args, toml) ==
    IF toml THEN Finish("Show", "none", d, args, <<>>, FormatTOML(d), "toml", 0)
    ELSE PrintJSON("Show", d, args, <<>>, FormatJSON(d))

ShowLoaded(r, args, flag) ==
    IF ~validateFormat(flag) THEN Fail("Show", "format", args)
    ELSE IF r.err # "none" THEN Fail("Show", r.err, args)
    ELSE IF Len(args) = 1
    THEN ShowCategory(r.db, args, GetCategory(r.db, args[1]), resolveFormat(flag) = "toml")
    ELSE ShowAll(r.db, args, resolveFormat(flag) = "toml")

\* showCmd.RunE; args holds no argument or a category name.
ShowCommand(argLists, flags) ==
    /\ op = "init"
    /\ \E args \in argLists, flag \in flags : ShowLoaded(loadDB, args, flag)

\* describeCmd.RunE describing one field.
DescribeOne(d, args, desc) ==
    IF desc = <<>> THEN Finish("Describe", "none", d, args, <<>>, <<>>, "none", 2)
    ELSE Finish("Describe", "none", d, args, <<>>, desc \o <<NL>>, "value", 0)

\* describeCmd.RunE describing a category or the whole store.
DescribeMany(d, args, fields) ==
    IF Len(fields) = 0 THEN Finish("Describe", "none", d, args, fields, <<>>, "none", 2)
    ELSE PrintJSON("Describe", d, args, fields, FormatDescJSON(fields))

DescribeLoaded(r, args, flag) ==
    IF ~validateFormat(flag) THEN Fail("Describe", "format", args)
    ELSE IF r.err # "none" THEN Fail("Describe", r.err, args)
    ELSE IF Len(args) = 1 /\ ContainsByte(args[1], ".")
    THEN DescribeOne(r.db, args, DescribeField(r.db, args[1]))
    ELSE IF Len(args) = 0 THEN DescribeMany(r.db, args, AllDescriptions(r.db))
    ELSE DescribeMany(r.db, args, DescribeCategory(r.db, args[1]))

\* describeCmd.RunE reading descriptions; args holds no argument, a
\* category name or a path.
DescribeCommand(argLists, flags) ==
    /\ op = "init"
    /\ \E args \in argLists, flag \in flags : DescribeLoaded(loadDB, args, flag)

----------------------------------------------------------------------------
(* The store files the commands start from *)

\* At most MaxItems entries (key lines, empty tables, top-level scalars,
\* or the marks "absent" and "unparseable") over the two store files.
MaxItems == 3

GlobalPath == "global"
LocalPath == "local"
Paths == {GlobalPath, LocalPath}

\* Category names: one with built-in descriptions, and one quoted name that
\* holds a dot.
StoreCats == {<<"w", "e", "b">>, <<"a", ".", "b">>}

\* Keys that are no description keys, and the values they take: a string and
\* the integer with the same display text, and an array.
StoreKeys == {<<"g", "i", "t", "h", "u", "b">>, <<"k">>}
StoreVals == {StrVal(<<"1">>), IntVal(1), ArrVal(<<StrVal(<<"x">>), IntVal(1)>>)}

\* The companion key of github, and the values it takes: a description, the
\* empty string, and a value that is no string.
StoreDescKeys == {<<"g", "i", "t", "h", "u", "b">> \o DescSuffix}
StoreDescVals == {StrVal(<<"d">>), StrVal(<<>>), IntVal(1)}

Item(kind, cat, key, val) == [kind |-> kind, cat |-> cat, key |-> key, val |-> val]

\* What one file may hold.
StoreItems ==
    {Item("key", c, k, v) : c \in StoreCats, k \in StoreKeys, v \in StoreVals}
    \cup {Item("key", c, k, v) : c \in StoreCats, k \in StoreDescKeys, v \in StoreDescVals}
    \cup {Item(kind, c, <<>>, IntVal(1)) : c \in StoreCats, kind \in {"table", "scalar"}}
    \cup {Item(kind, <<>>, <<>>, IntVal(1)) : kind \in {"missing", "garbage"}}

\* Whether item x may join the items S of one file: a TOML table holds a key
\* once, a top-level name is a table or a scalar, and an absent or
\* unparseable file holds nothing.
Joins(S, x) ==
    \A y \in S :
        /\ y # x
        /\ y.kind \notin {"missing", "garbage"}
        /\ x.kind \notin {"missing", "garbage"}
        /\ y.cat = x.cat =>
              /\ y.kind = "key"
              /\ x.kind = "key"
              /\ y.key # x.key

\* The sets of exactly n items that make up one file.
RECURSIVE ItemSets(_)
ItemSets(n) ==
    IF n = 0 THEN {{}}
    ELSE UNION {{S \cup {x} : x \in {y \in StoreItems : Joins(S, y)}} :
                   S \in ItemSets(n - 1)}

\* The file a set of items makes up.
FileOf(S) ==
    LET cats == {x.cat : x \in S}
        entry(c) ==
            IF \E x \in S : x.cat = c /\ x.kind = "scalar"
            THEN ScalarEntry(IntVal(1))
            ELSE LET ks == {x \in S : x.cat = c /\ x.kind = "key"}
                 IN  TableEntry([k \in {x.key : x \in ks} |->
                                    (CHOOSE x \in ks : x.key = k).val])
    IN  IF \E x \in S : x.kind = "missing" THEN MissingFile
        ELSE IF \E x \in S : x.kind = "garbage" THEN GarbageFile
        ELSE TomlFile([c \in cats |-> entry(c)])

FileAt(path) == IF path = GlobalPath THEN globalFile ELSE localFile

----------------------------------------------------------------------------
(* The commands over the two store files *)

Init ==
    /\ \E n \in 0..MaxItems, m \in 0..MaxItems :
          /\ n + m <= MaxItems
          /\ globalFile \in {FileOf(S) : S \in ItemSets(n)}
          /\ localFile \in {FileOf(S) : S \in ItemSets(m)}
    /\ op = "init"
    /\ err = "none"
    /\ g = EmptyDB
    /\ l = EmptyDB
    /\ db = EmptyDB
    /\ arg = <<>>
    /\ results = <<>>
    /\ entries = <<>>
    /\ OthersInit

\* One process runs one command (main) and exits; the next process starts
\* from the same files, so every command is taken from the initial state.

\* store.Load(GlobalFile(), localPath); localPath is empty, the local file,
\* or the global file itself.
LoadAction ==
    /\ op = "init"
    /\ \E lp \in Paths \cup {""} :
          LET hasLocal == lp # ""
              lfile == IF hasLocal THEN FileAt(lp) ELSE MissingFile
              r == Load(globalFile, hasLocal, lfile)
          IN  /\ op' = IF hasLocal THEN "Load" ELSE "LoadGlobal"
              /\ err' = r.err
              /\ db' = r.db
              /\ g' = IF r.err = "none" THEN LoadFile(globalFile).db ELSE EmptyDB
              /\ l' = IF r.err = "none" /\ hasLocal THEN LoadFile(lfile).db ELSE EmptyDB
              /\ arg' = IF hasLocal THEN <<lp>> ELSE <<>>
    /\ UNCHANGED <<globalFile, localFile, results, entries>>
    /\ UNCHANGED others

\* diffCmd.RunE: needs a local file; loads both files and compares them.
DiffAction ==
    /\ op = "init"
    /\ localFile.state # "missing"
    /\ LET gl == LoadFile(globalFile)
           lo == LoadFile(localFile)
           e == IF gl.err # "none" THEN gl.err ELSE lo.err
       IN  /\ op' = "Diff"
           /\ err' = e
           /\ g' = IF e = "none" THEN gl.db ELSE EmptyDB
           /\ l' = IF e = "none" THEN lo.db ELSE EmptyDB
           /\ entries' = IF e = "none" THEN computeDiff(gl.db, lo.db) ELSE <<>>
           /\ db' = EmptyDB
    /\ UNCHANGED <<globalFile, localFile, arg, results>>
    /\ UNCHANGED others

Next == LoadAction \/ DiffAction

Spec == Init /\ [][Next]_vars

----------------------------------------------------------------------------
(* What the claims speak of *)

\* The places <<i, j>> of the fields of d stored in a category named C under
\* key K.
Places(d, C, K) ==
    UNION {{<<i, j>> : j \in {k \in 1..Len(d.Categories[i].Fields) :
                                 d.Categories[i].Fields[k].Key = K}} :
              i \in {n \in 1..Len(d.Categories) : d.Categories[n].Name = C}}

FieldsAt(d, C, K) == {d.Categories[p[1]].Fields[p[2]] : p \in Places(d, C, K)}

ValueDescAt(d, C, K) == {<<f.Value, f.Desc>> : f \in FieldsAt(d, C, K)}

\* The <<category name, key>> pairs of d.
PathsOf(d) ==
    UNION {{<<d.Categories[i].Name, d.Categories[i].Fields[j].Key>> :
               j \in 1..Len(d.Categories[i].Fields)} : i \in 1..Len(d.Categories)}

StrictlyAscending(names) ==
    \A i \in 1..(Len(names) - 1) : StrLess(names[i], names[i + 1])

Sorted(d) ==
    /\ StrictlyAscending(CategoryNames(d))
    /\ \A i \in 1..Len(d.Categories) :
          StrictlyAscending(FieldKeys(d.Categories[i].Fields))

Merged == op = "Load" /\ err = "none"

\* C1. Merge precedence: a field of local is in the merge with local's value
\* and description, a field of global alone with global's, and the merge
\* holds no field that neither input holds.
C1_MergePrecedence ==
    Merged =>
        \A p \in PathsOf(g) \cup PathsOf(l) \cup PathsOf(db) :
            /\ Cardinality(Places(db, p[1], p[2])) = 1
            /\ ValueDescAt(db, p[1], p[2]) =
                  IF ValueDescAt(l, p[1], p[2]) # {}
                  THEN ValueDescAt(l, p[1], p[2])
                  ELSE ValueDescAt(g, p[1], p[2])
            /\ ValueDescAt(db, p[1], p[2]) # {}

\* A merge where local overrides both the value and the description of a
\* field of global, next to a field that only global holds.
C1_Witness ==
    /\ Merged
    /\ \E p \in PathsOf(g) \cap PathsOf(l) :
          \E x \in ValueDescAt(g, p[1], p[2]), y \in ValueDescAt(l, p[1], p[2]) :
              x[1] # y[1] /\ x[2] # y[2] /\ ValueDescAt(db, p[1], p[2]) = {y}

\* C2. Merge category union: the category names of the merge are the
\* duplicate-free union of the names of both inputs in ascending order; an
\* empty input leaves exactly the other's categories.
C2_CategoryUnion ==
    Merged =>
        /\ SeqRange(CategoryNames(db)) =
              SeqRange(CategoryNames(g)) \cup SeqRange(CategoryNames(l))
        /\ StrictlyAscending(CategoryNames(db))
        /\ l = EmptyDB => db.Categories = g.Categories
        /\ g = EmptyDB => db.Categories = l.Categories

\* A merge whose inputs hold different categories, local's sorting first.
C2_Witness ==
    /\ Merged
    /\ Len(g.Categories) = 1
    /\ Len(l.Categories) = 1
    /\ Len(db.Categories) = 2
    /\ StrLess(l.Categories[1].Name, g.Categories[1].Name)

\* C3. Sort invariant: every Database LoadFile returns, and every merge of
\* two of them, has its category names and, in each category, its keys in
\* strictly ascending order.
C3_SortInvariant == err = "none" => Sorted(g) /\ Sorted(l) /\ Sorted(db)

\* A merge of two categories in which a key of local sorts before a key of
\* global.
C3_Witness ==
    /\ Merged
    /\ Len(db.Categories) = 2
    /\ \E i \in 1..2 :
          /\ Len(db.Categories[i].Fields) = 2
          /\ \E p \in PathsOf(l) \ PathsOf(g), q \in PathsOf(g) \ PathsOf(l) :
                p[1] = q[1] /\ p[1] = db.Categories[i].Name /\ StrLess(p[2], q[2])

\* C4. Merge idempotence on self: merging a loaded Database with itself
\* returns it unchanged.
C4_MergeIdempotent == (Merged /\ l = g) => db = g

\* A Database of two categories, one with two fields, merged with itself.
C4_Witness ==
    /\ Merged
    /\ l = g
    /\ Len(g.Categories) = 2
    /\ \E i \in 1..2 : Len(g.Categories[i].Fields) = 2

\* The entries C9 describes for the fields of one category of local.
RECURSIVE ClaimedDiffFields(_, _, _)
ClaimedDiffFields(gdb, C, fields) ==
    IF fields = <<>> THEN <<>>
    ELSE LET f == fields[1]
             path == C \o <<".">> \o f.Key
             there == FieldsAt(gdb, C, f.Key)
             gtext == FormatValue((CHOOSE x \in there : TRUE).Value)
             ltext == FormatValue(f.Value)
             entry == IF IsDescKey(f.Key) THEN <<>>
                      ELSE IF there = {}
                      THEN <<DiffEntry(path, StatusLocalOnly, <<>>, ltext)>>
                      ELSE IF gtext # ltext
                      THEN <<DiffEntry(path, StatusOverride, gtext, ltext)>>
                      ELSE <<>>
         IN  entry \o ClaimedDiffFields(gdb, C, Tail(fields))

RECURSIVE ClaimedDiff(_, _)
ClaimedDiff(gdb, cats) ==
    IF cats = <<>> THEN <<>>
    ELSE ClaimedDiffFields(gdb, cats[1].Name, cats[1].Fields)
         \o ClaimedDiff(gdb, Tail(cats))

Diffed == op = "Diff" /\ err = "none"

\* C9. Diff entries: in the order of local's fields, one "local-only" entry
\* per field absent from global, one "override" entry per field whose
\* display text differs from global's, and no other entry.
C9_DiffEntries == Diffed => entries = ClaimedDiff(g, l.Categories)

\* The display texts of the fields of d stored under category C and key K.
TextsAt(d, C, K) == {FormatValue(f.Value) : f \in FieldsAt(d, C, K)}

\* The paths of the entries of a diff.
EntryPaths(es) == {es[i].Path : i \in 1..Len(es)}

\* C30: a path C.K is in the diff of the loaded Databases g and l exactly
\* when the field C.K of Merge(g, l) is absent from g or shows another text
\* than g's; each entry is for a field of Merge(g, l) and its LocalVal is
\* the display text of that field; the diff of a Database with itself is
\* empty.
C30_DiffAgreesWithMerge ==
    Diffed =>
        /\ \A p \in PathsOf(Merge(g, l)) :
              (p[1] \o <<".">> \o p[2] \in EntryPaths(entries))
                 = (TextsAt(g, p[1], p[2]) # TextsAt(Merge(g, l), p[1], p[2]))
        /\ \A i \in 1..Len(entries) :
              \E p \in PathsOf(Merge(g, l)) :
                  /\ entries[i].Path = p[1] \o <<".">> \o p[2]
                  /\ TextsAt(Merge(g, l), p[1], p[2]) = {entries[i].LocalVal}
        /\ g = l => entries = <<>>

\* C10. Description pairing on load: a field's Desc is the string value of
\* its companion key whenever the table holds one, else the built-in default,
\* else empty.  (A companion that is no string has no string value: the
\* claim says nothing of it.)
C10_DescPairing ==
    (op # "init" /\ err = "none") =>
        \A C \in DOMAIN globalFile.raw :
            globalFile.raw[C].isTable =>
                \A K \in DOMAIN globalFile.raw[C].tbl :
                    LET tbl == globalFile.raw[C].tbl
                        dk == K \o DescSuffix
                        claimed == IF dk \in DOMAIN tbl THEN tbl[dk].str
                                   ELSE IF HasDefaultDesc(C, K) THEN DefaultDesc(C, K)
                                   ELSE <<>>
                    IN  (~IsDescKey(K) /\ (dk \in DOMAIN tbl => tbl[dk].kind = "string"))
                            => \A f \in FieldsAt(g, C, K) : f.Desc = claimed

----------------------------------------------------------------------------
(* The get and search commands, and the model package's tests, over one store *)

\* At most MaxQueryItems key lines in the store the queries run on.
MaxQueryItems == 2

\* Category names and keys as TOML admits them, bare or quoted: plain names,
\* names holding glob characters, a malformed glob, a dot, a slash.
QueryCats == {<<"a">>, <<"a", "*">>, <<"[", "a">>, <<"a", ".", "b">>}
QueryKeys == {<<"k">>, <<"k", "*">>, <<"[", "k">>, <<"x", "/", "y">>,
              <<"k">> \o DescSuffix}
QueryVal == StrVal(<<"A", "b">>)

\* One key may hold an array instead.
QueryArr == ArrVal(<<StrVal(<<"A">>), StrVal(<<"b">>)>>)

QueryItems ==
    {Item("key", c, k, QueryVal) : c \in QueryCats, k \in QueryKeys}
    \cup {Item("key", <<"a">>, <<"k">>, QueryArr)}

RECURSIVE QueryItemSets(_)
QueryItemSets(n) ==
    IF n = 0 THEN {{}}
    ELSE LET prev == QueryItemSets(n - 1)
         IN  prev \cup UNION {{S \cup {x} : x \in {y \in QueryItems : Joins(S, y)}} :
                                 S \in prev}

\* The arguments of get: every path and category name of the universe, the
\* category globs, and patterns with stars, classes, escapes and malformed
\* parts.
PathPatterns == {c \o <<".">> \o k : c \in QueryCats, k \in QueryKeys}

Patterns ==
    PathPatterns \cup QueryCats \cup {c \o <<".", "*">> : c \in QueryCats}
    \cup { <<"*">>, <<"*", ".", "*">>, <<"*", ".", "k">>, <<"?">>, <<"z">>,
           <<"[", "a", "]", "*", ".", "?">>, <<"a", ".", "[", "j", "-", "l", "]">>,
           <<"[">>, <<"a", ".", "[">>, <<"*", ".", "k", "\\">>, <<"a", ".", "z">>,
           <<"\\", "[", "a", ".", "\\", "[", "k">> }

\* The arguments of search.
SearchTexts == {<<>>, <<"a">>, <<"B">>, <<"K">>, <<"d", "e", "s", "c">>, <<"z">>,
                <<"A", "B">>, <<",", " ", "B">>}

\* A Database written as a literal, as newTestDB does: the categories and
\* fields in no sorted order, the description keys among the fields.
NewTestDB(raw) ==
    LET names == SortStringsDescending(DOMAIN raw)
        fieldsOf(c) ==
            LET keys == SortStringsDescending(DOMAIN raw[c].tbl)
            IN  [i \in 1..Len(keys) |->
                    Field(keys[i], raw[c].tbl[keys[i]],
                          IF IsDescKey(keys[i]) THEN <<>>
                          ELSE LoadDesc(c, raw[c].tbl, keys[i]),
                          c)]
    IN  [Categories |-> [i \in 1..Len(names) |->
                            [Name |-> names[i], Fields |-> fieldsOf(names[i])]]]

QueryInit ==
    /\ globalFile \in {FileOf(S) : S \in QueryItemSets(MaxQueryItems)}
    /\ localFile = MissingFile
    /\ op = "init"
    /\ err = "none"
    /\ g = EmptyDB
    /\ l = EmptyDB
    /\ db = EmptyDB
    /\ arg = <<>>
    /\ results = <<>>
    /\ entries = <<>>
    /\ OthersInit

\* deets get <pattern>, with and without --json
GetAction == GetCommand(Patterns)

\* deets search <text>
SearchAction == SearchCommand(SearchTexts, {""})

\* TestQuery_*: newTestDB().Query(pattern)
QueryTest ==
    /\ op = "init"
    /\ \E p \in Patterns :
          /\ op' = "Query"
          /\ db' = NewTestDB(globalFile.raw)
          /\ arg' = p
          /\ results' = Query(NewTestDB(globalFile.raw), p)
    /\ UNCHANGED <<globalFile, localFile, err, g, l, entries>>
    /\ UNCHANGED others

\* TestSearch_*: newTestDB().Search(text)
SearchTest ==
    /\ op = "init"
    /\ \E text \in SearchTexts :
          /\ op' = "Search"
          /\ db' = NewTestDB(globalFile.raw)
          /\ arg' = text
          /\ results' = Search(NewTestDB(globalFile.raw), text)
    /\ UNCHANGED <<globalFile, localFile, err, g, l, entries>>
    /\ UNCHANGED others

\* TestGetField_*: newTestDB().GetField(path); err tells that ok is false.
GetFieldTest ==
    /\ op = "init"
    /\ \E p \in Patterns :
          LET r == GetField(NewTestDB(globalFile.raw), p)
          IN  /\ op' = "GetField"
              /\ db' = NewTestDB(globalFile.raw)
              /\ arg' = p
              /\ results' = <<r.field>>
              /\ err' = IF r.found THEN "none" ELSE "notfound"
    /\ UNCHANGED <<globalFile, localFile, g, l, entries>>
    /\ UNCHANGED others

QueryNext == GetAction \/ SearchAction \/ QueryTest \/ SearchTest \/ GetFieldTest

SpecQuery == QueryInit /\ [][QueryNext]_vars

----------------------------------------------------------------------------
(* Claims about Query and Search *)

Queried == op = "Query" /\ err = "none"

Searched == op = "Search" /\ err = "none"

\* A key that names a description: it ends in "_desc".
EndsInDesc(key) ==
    /\ Len(key) >= 5
    /\ SubSeq(key, Len(key) - 4, Len(key)) = <<"_", "d", "e", "s", "c">>

\* The fields of d, each with the name of the category that holds it, in
\* storage order.
RECURSIVE Stored(_)
Stored(cats) ==
    IF cats = <<>> THEN <<>>
    ELSE [j \in 1..Len(cats[1].Fields) |->
             [cat |-> cats[1].Name, field |-> cats[1].Fields[j]]]
         \o Stored(Tail(cats))

FieldsOfStored(pairs) == [i \in 1..Len(pairs) |-> pairs[i].field]

\* C5: when the database holds a non-description field with key K in category
\* C, the query "C.K" returns exactly that one field, whatever characters C
\* and K consist of.
C5_ExactRoundTrip ==
    Queried =>
        \A i \in 1..Len(db.Categories) :
            \A j \in 1..Len(db.Categories[i].Fields) :
                LET f == db.Categories[i].Fields[j]
                IN  (/\ ~EndsInDesc(f.Key)
                     /\ arg = db.Categories[i].Name \o <<".">> \o f.Key)
                    => results = <<f>>

\* C6: for every category name C of the database, the query "C" returns the
\* same fields in the same order as the query "C.*".
C6_CategoryShorthand ==
    Queried =>
        \A i \in 1..Len(db.Categories) :
            arg = db.Categories[i].Name
                => results = Query(db, arg \o <<".", "*">>)

\* C7: no field returned by Query or Search has a key ending in "_desc",
\* whatever the database holds and whatever the pattern or the text is.
C7_NoDescKeys ==
    (Queried \/ Searched) =>
        \A i \in 1..Len(results) : ~EndsInDesc(results[i].Key)

\* A query and a search over a database that holds description keys as
\* fields, each returning something.
C7_Witness ==
    /\ Queried \/ Searched
    /\ results # <<>>
    /\ \E i \in 1..Len(db.Categories) :
          \E j \in 1..Len(db.Categories[i].Fields) :
              /\ EndsInDesc(db.Categories[i].Fields[j].Key)
              /\ \E k \in 1..Len(results) :
                    results[k].Category = db.Categories[i].Name

\* The pattern part is not a well-formed glob: filepath.Match reports
\* ErrBadPattern for it.
Malformed(part) == Match(part, <<>>).err

\* What a pattern part selects: literally equal names when it is malformed,
\* the names its glob matches otherwise.
Selects(part, name) ==
    IF Malformed(part) THEN name = part ELSE Match(part, name).matched

\* C8: a query with a malformed part returns a list all the same. In a dotted
\* pattern the malformed part matches by literal equality and the other part
\* as usual; a malformed pattern without a dot returns the non-description
\* fields of the category whose name equals it.
C8_MalformedFallback ==
    Queried =>
        LET dot == FirstDot(arg)
            catPart == SubSeq(arg, 1, dot - 1)
            keyPart == SubSeq(arg, dot + 1, Len(arg))
            all == Stored(db.Categories)
            dotted(x) == /\ Selects(catPart, x.cat)
                         /\ Selects(keyPart, x.field.Key)
                         /\ ~EndsInDesc(x.field.Key)
            plain(x) == x.cat = arg /\ ~EndsInDesc(x.field.Key)
        IN  /\ (dot > 0 /\ (Malformed(catPart) \/ Malformed(keyPart)))
                => results = FieldsOfStored(SelectSeq(all, dotted))
            /\ (dot = 0 /\ Malformed(arg))
                => results = FieldsOfStored(SelectSeq(all, plain))

\* A dotted query with a malformed key part that found the field so named.
C8_Witness ==
    /\ Queried
    /\ FirstDot(arg) > 0
    /\ Malformed(SubSeq(arg, FirstDot(arg) + 1, Len(arg)))
    /\ results # <<>>

\* xs is ys with elements left out: an order-preserving sub-list.
RECURSIVE IsSubList(_, _)
IsSubList(xs, ys) ==
    IF xs = <<>> THEN TRUE
    ELSE IF ys = <<>> THEN FALSE
    ELSE IF xs[1] = ys[1] THEN IsSubList(Tail(xs), Tail(ys))
    ELSE IsSubList(xs, Tail(ys))

\* C22: a pattern with a dot, split at its first dot into a category part
\* and a key part, returns exactly the non-description fields whose category
\* name matches the category part and whose key matches the key part, each
\* once, in the order of the Database (categories, then fields); and the
\* result of every Query and every Search is a sub-list of AllFields(db).
C22_DottedQuery ==
    /\ (Queried /\ FirstDot(arg) > 0) =>
          LET dot == FirstDot(arg)
              catPart == SubSeq(arg, 1, dot - 1)
              keyPart == SubSeq(arg, dot + 1, Len(arg))
              kept(x) == /\ Selects(catPart, x.cat)
                         /\ Selects(keyPart, x.field.Key)
                         /\ ~EndsInDesc(x.field.Key)
          IN  /\ results = FieldsOfStored(SelectSeq(Stored(db.Categories), kept))
              /\ \A i, j \in 1..Len(results) : results[i] = results[j] => i = j
    /\ (Queried \/ Searched) => IsSubList(results, AllFields(db))

\* A query *.K over a Database that holds the key K in two categories
\* returned the field of the first category before that of the second.
C22_Witness ==
    /\ Queried
    /\ FirstDot(arg) = 2
    /\ arg[1] = "*"
    /\ Len(results) = 2
    /\ Len(db.Categories) = 2
    /\ results[1].Category = db.Categories[1].Name
    /\ results[2].Category = db.Categories[2].Name
    /\ results[1].Key = results[2].Key

\* sub occurs in str.
IsSubstring(sub, str) ==
    \E pre \in 0..Len(str) :
        /\ pre + Len(sub) <= Len(str)
        /\ \A i \in 1..Len(sub) : str[pre + i] = sub[i]

\* The display text of a value: the elements of an array joined with ", ".
DisplayText(v) ==
    IF v.kind = "array"
    THEN Join([i \in 1..Len(v.items) |-> ScalarText(v.items[i])], <<",", " ">>)
    ELSE ScalarText(v)

\* The text occurs, letter case aside, in the key, the display text of the
\* value or the description of a field that is no description field.
SearchHit(text, f) ==
    /\ ~EndsInDesc(f.Key)
    /\ \/ IsSubstring(ToLower(text), ToLower(f.Key))
       \/ IsSubstring(ToLower(text), ToLower(DisplayText(f.Value)))
       \/ IsSubstring(ToLower(text), ToLower(f.Desc))

\* C24: Search returns exactly the fields the text occurs in, in the order
\* of the Database, and the empty list when there is none.
C24_SearchMembership ==
    Searched =>
        LET hit(x) == SearchHit(arg, x.field)
        IN  results = FieldsOfStored(SelectSeq(Stored(db.Categories), hit))

\* A search in capitals found a field through the joined elements of its
\* array, and another search a field through its description only, each
\* leaving other fields out.
C24_Witness ==
    /\ Searched
    /\ results # <<>>
    /\ Len(results) < Len(AllFields(db))
    /\ \/ /\ arg = <<",", " ", "B">>
          /\ results[1].Value.kind = "array"
       \/ /\ arg = <<"A", "B">>
          /\ results[1].Value.kind = "array"
          /\ results[1].Desc # <<>>

\* C26: GetField finds a field exactly when the path holds a dot and,
\* split at its first dot into C and K, the Database has a category named C
\* with a field whose key is K, both compared as they are; the field found
\* is that one, also when K ends in "_desc".
C26_GetFieldExact ==
    op = "GetField" =>
        LET dot == FirstDot(arg)
            C == SubSeq(arg, 1, dot - 1)
            K == SubSeq(arg, dot + 1, Len(arg))
        IN  /\ (err = "none") = (dot > 0 /\ Places(db, C, K) # {})
            /\ err = "none" => results[1] \in FieldsAt(db, C, K)
            /\ err # "none" => results = <<ZeroField>>

\* GetField found a key that ends in "_desc", which Query leaves out.
C26_Witness ==
    /\ op = "GetField"
    /\ err = "none"
    /\ EndsInDesc(results[1].Key)
    /\ Query(db, arg) = <<>>

----------------------------------------------------------------------------
(* Claims about Load's errors *)

\* The file a Load with a local path read second.
LocalRead == FileAt(arg[1])

\* C11: Load returns a Database only if the global file is read and parsed
\* and, when localPath is not empty, the local file too; any failure yields
\* the error and no Database. With an empty localPath the result is that of
\* LoadFile(globalPath), whatever the local file holds.
C11_LoadErrors ==
    /\ op = "LoadGlobal" =>
          /\ err = LoadFile(globalFile).err
          /\ db = LoadFile(globalFile).db
          /\ (err = "none") = (globalFile.state = "ok")
    /\ op = "Load" =>
          /\ (err = "none") = (globalFile.state = "ok" /\ LocalRead.state = "ok")
          /\ globalFile.state = "missing" => err = "read"
          /\ globalFile.state = "garbage" => err = "parse"
          /\ (globalFile.state = "ok" /\ LocalRead.state = "missing") => err = "read"
          /\ (globalFile.state = "ok" /\ LocalRead.state = "garbage") => err = "parse"
          /\ err # "none" => db = EmptyDB

\* A readable global file with fields and a local file that fails.
C11_Witness ==
    /\ op = "Load"
    /\ arg = <<LocalPath>>
    /\ globalFile.state = "ok"
    /\ LoadFile(globalFile).db # EmptyDB
    /\ localFile.state # "ok"
    /\ err # "none"

----------------------------------------------------------------------------
(* The export command and the formatters over one merged store *)

\* At most MaxFormatItems key lines in the two store files together.
MaxFormatItems == 2

FormatCats == {<<"a">>, <<"a", ".", "b">>}
FormatKeys == {<<"k">>, <<"j">>}
FormatDescKeys == {<<"k">> \o DescSuffix}
FormatVals ==
    { StrVal(<<"x", "\"", "<">>), IntVal(-1), FloatVal(<<"1">>),
      FloatVal(<<"1", ".", "5">>), FloatVal(NaNText), BoolVal(TRUE),
      ArrVal(<<StrVal(<<"x">>), FloatVal(<<"1">>)>>) }

FormatItems ==
    {Item("key", c, k, v) : c \in FormatCats, k \in FormatKeys, v \in FormatVals}
    \cup {Item("key", c, k, StrVal(<<"d">>)) : c \in FormatCats, k \in FormatDescKeys}
    \cup {Item(kind, <<>>, <<>>, IntVal(1)) : kind \in {"missing", "garbage"}}

\* The sets of exactly n items that make up one file.
RECURSIVE FormatItemSets(_)
FormatItemSets(n) ==
    IF n = 0 THEN {{}}
    ELSE UNION {{S \cup {x} : x \in {y \in FormatItems : Joins(S, y)}} :
                   S \in FormatItemSets(n - 1)}

FormatInit ==
    /\ \E n \in 0..MaxFormatItems, m \in 0..1 :
          /\ n + m <= MaxFormatItems
          /\ globalFile \in {FileOf(S) : S \in FormatItemSets(n)}
          /\ localFile \in {FileOf(S) : S \in FormatItemSets(m)}
    /\ op = "init"
    /\ err = "none"
    /\ g = EmptyDB
    /\ l = EmptyDB
    /\ db = EmptyDB
    /\ arg = <<>>
    /\ results = <<>>
    /\ entries = <<>>
    /\ OthersInit

FormatFlags == {"", "json", "toml", "xml"}

\* The arguments of get and of the formatter tests.
FormatPatterns ==
    { <<"a">>, <<"a", ".", "k">>, <<"*">>, <<"*", ".", "k">>, <<"z", ".", "k">> }

\* The arguments of show: none, or a category name.
ShowArgs == {<<>>, <<<<"a">>>>, <<<<"a", ".", "b">>>>, <<<<"z">>>>}

\* The arguments of describe: none, a category name or a path.
DescribeArgs ==
    {<<>>, <<<<"a">>>>, <<<<"z">>>>, <<<<"a", ".", "k">>>>, <<<<"a", ".", "j">>>>}

\* deets export [--format f]
ExportAction == ExportCommand(FormatFlags)

\* deets show [category] [--format f]
ShowAction == ShowCommand(ShowArgs, FormatFlags)

\* deets get <pattern> [--json]
FormatGet == GetCommand(FormatPatterns)

\* deets search <text> [--format f]
FormatSearch == SearchCommand({<<"X">>, <<"1">>, <<"z">>}, FormatFlags)

\* deets describe [path] [--format f]
DescribeAction == DescribeCommand(DescribeArgs, {"", "json", "xml"})

WithDescFields(d, p, fields) ==
    PrintJSON("WithDesc", d, p, fields, FormatFieldsJSONWithDesc(fields))

WithDescPrint(d, p) == WithDescFields(d, p, Query(d, p))

\* TestFormatFieldsJSONWithDesc_*: the formatter on a field list.
WithDescTest ==
    /\ op = "init"
    /\ globalFile.state = "ok"
    /\ \E p \in FormatPatterns : WithDescPrint(LoadFile(globalFile).db, p)

\* The field lists of TestFormatJSON_KeyOrder and TestFormatDescJSON_KeyOrder:
\* the fields of a store in any order.
Reordered(fields, perm) == [i \in 1..Len(fields) |-> fields[perm[i]]]

KeyOrderPrint(formatter, fields) ==
    CASE formatter = "FormatJSON" ->
            PrintJSON("KeyOrderDB", FieldsToDB(fields), <<>>, fields,
                      FormatJSON(FieldsToDB(fields)))
      [] formatter = "FormatFieldsJSON" ->
            PrintJSON("KeyOrderFields", FieldsToDB(fields), <<>>, fields,
                      FormatFieldsJSON(fields))
      [] formatter = "FormatDescJSON" ->
            PrintJSON("KeyOrderDesc", FieldsToDB(fields), <<>>, fields,
                      FormatDescJSON(fields))

KeyOrderFields(formatter, fields) ==
    \E perm \in Permutations(1..Len(fields)) :
        KeyOrderPrint(formatter, Reordered(fields, perm))

KeyOrderTest ==
    /\ op = "init"
    /\ globalFile.state = "ok"
    /\ \E formatter \in {"FormatJSON", "FormatFieldsJSON", "FormatDescJSON"} :
          KeyOrderFields(formatter, AllFields(LoadFile(globalFile).db))

FormatNext ==
    \/ ExportAction
    \/ ShowAction
    \/ FormatGet
    \/ FormatSearch
    \/ DescribeAction
    \/ WithDescTest
    \/ KeyOrderTest

SpecFormat == FormatInit /\ [][FormatNext]_vars

----------------------------------------------------------------------------
(* Claims about the formatters *)

\* The keys and values of a Database, without the descriptions.
KeysAndValues(d) ==
    [i \in 1..Len(d.Categories) |->
        [Name |-> d.Categories[i].Name,
         Fields |-> [j \in 1..Len(d.Categories[i].Fields) |->
                        <<d.Categories[i].Fields[j].Key,
                          d.Categories[i].Fields[j].Value>>]]]

\* C12: for a Database that Load produced, LoadFile of the text FormatTOML
\* wrote succeeds and yields the same category names, the same keys in each
\* category and the same value, of the same type, for every field.
C12_TomlRoundTrip ==
    (op = "Export" /\ format = "toml") =>
        LET r == LoadFile(Unmarshal(out))
        IN  /\ r.err = "none"
            /\ KeysAndValues(r.db) = KeysAndValues(db)


----------------------------------------------------------------------------
(* JSON output *)

\* C13: whatever a JSON formatter is given from a loaded store (FormatJSON,
\* FormatCategoryJSON, FormatFieldsJSON, FormatFieldsJSONWithDesc,
\* FormatDescJSON), it returns text, and the text is valid JSON.
C13_JsonValid ==
    /\ err # "marshal"
    /\ format = "json" => JSONParse(out).ok


\* The keys of the fields that are no description keys, in the order of the
\* fields.
KeysInOrder(fields) ==
    LET kept == SelectSeq(fields, LAMBDA f : ~IsDescKey(f.Key))
    IN  [i \in 1..Len(kept) |-> kept[i].Key]

\* The JSON object o lists the categories of d that have a field to show in
\* d's order, and in each the keys in the category's order.
InDBOrder(o, d) ==
    LET cats == SelectSeq(d.Categories, LAMBDA c : Len(KeysInOrder(c.Fields)) > 0)
    IN  /\ o.keys = [i \in 1..Len(cats) |-> cats[i].Name]
        /\ \A i \in 1..Len(cats) : o.vals[i].keys = KeysInOrder(cats[i].Fields)

FirstIndex(fields, c) ==
    CHOOSE i \in 1..Len(fields) :
        fields[i].Category = c /\ \A j \in 1..(i - 1) : fields[j].Category # c

\* The JSON object o lists the keys of the fields in the order of the slice
\* or, for fields of several categories, the categories in the order of
\* their first appearance and in each the keys in the order of the slice.
InSliceOrder(o, fields) ==
    IF \A i \in 1..Len(fields) : fields[i].Category = fields[1].Category
    THEN o.keys = KeysInOrder(fields)
    ELSE /\ {o.keys[i] : i \in 1..Len(o.keys)}
               = {fields[i].Category : i \in 1..Len(fields)}
         /\ \A i, j \in 1..Len(o.keys) :
               i < j => FirstIndex(fields, o.keys[i]) < FirstIndex(fields, o.keys[j])
         /\ \A i \in 1..Len(o.keys) :
               o.vals[i].keys
                   = KeysInOrder(SelectSeq(fields, LAMBDA f : f.Category = o.keys[i]))

\* The JSON object o lists one path category.key per field, in the order of
\* the slice.
InPathOrder(o, fields) ==
    o.keys = [i \in 1..Len(fields) |-> fields[i].Category \o <<".">> \o fields[i].Key]

\* C14: the keys of the JSON text are in database order (FormatJSON: export,
\* show), in the order of the field slice with categories in order of first
\* appearance (FormatFieldsJSON: get, search), and in the order of the
\* described fields (FormatDescJSON: describe).
C14_JsonKeyOrder ==
    format = "json" =>
        /\ (op \in {"Export", "KeyOrderDB"} \/ (op = "Show" /\ arg = <<>>))
              => InDBOrder(JSONParse(out).val, db)
        /\ op \in {"Query", "Search", "KeyOrderFields"}
              => InSliceOrder(JSONParse(out).val, results)
        /\ op \in {"Describe", "KeyOrderDesc"}
              => InPathOrder(JSONParse(out).val, results)

\* FormatFieldsJSON has printed fields of two categories, the later category
\* in byte order first, and FormatJSON a category whose keys are not in byte
\* order.
C14_Witness ==
    /\ format = "json"
    /\ \/ /\ op = "KeyOrderFields"
          /\ Len(results) = 2
          /\ StrLess(results[2].Category, results[1].Category)
          /\ JSONParse(out).val.keys = <<results[1].Category, results[2].Category>>
       \/ /\ op = "KeyOrderDB"
          /\ Len(results) = 2
          /\ results[1].Category = results[2].Category
          /\ StrLess(results[2].Key, results[1].Key)
          /\ JSONParse(out).val.vals[1].keys = <<results[1].Key, results[2].Key>>


----------------------------------------------------------------------------
(* Exit status *)

\* The ended command looked something up and found nothing: a query or a
\* search without results, a field without description, a category or a
\* store without descriptions, a category that show does not find.
MatchedNothing ==
    \/ op \in {"Query", "Search"} /\ err = "none" /\ results = <<>>
    \/ /\ op = "Describe" /\ err = "none"
       /\ IF Len(arg) = 1 /\ ContainsByte(arg[1], ".")
          THEN ~GetField(db, arg[1]).found \/ GetField(db, arg[1]).field.Desc = <<>>
          ELSE results = <<>>
    \/ op = "Show" /\ err = "nocategory"

\* C15: a command ends with status 2 when its lookup matched nothing (get,
\* search, describe, show <category>), with status 1 on every other
\* failure, and with status 0 otherwise.
C15_ExitStatus ==
    op \in {"Query", "Search", "Export", "Show", "Describe"} =>
        code = (IF MatchedNothing THEN 2 ELSE IF err # "none" THEN 1 ELSE 0)


----------------------------------------------------------------------------
(* Editing a store file: deets set, deets rm *)

\* A store file holds at most MaxEditLines lines.
MaxEditLines == 4

EditCats == {<<"a">>, <<"b">>}
EditKeys == {<<"k">>, <<"j">>}

\* The values set: plain text, the empty string, text that holds a quote,
\* and text that starts like a TOML string or array.
EditValues ==
    { <<"x">>, <<>>, <<"a", "\"", "b">>, <<"\"", "q">>, <<"[", "x">>,
      <<"[", "1", "]">> }

\* The lines of a store file: headers, key lines, a quoted key, a header
\* with blanks inside the brackets, a comment, and the blank line.
EditLines ==
    { <<"[", "a", "]">>, <<"[", "b", "]">>, <<"[", " ", "a", " ", "]">>,
      <<"k", " ", "=", " ", "\"", "x", "\"">>, <<"j", " ", "=", " ", "1">>,
      <<"\"", "k", "\"", " ", "=", " ", "1">>,
      <<"#", " ", "c">>, <<>> }

\* The texts of n lines, each ended by a newline.
RECURSIVE EditTexts(_)
EditTexts(n) ==
    IF n = 0 THEN {<<>>}
    ELSE {line \o <<NL>> \o rest : line \in EditLines, rest \in EditTexts(n - 1)}

EditFiles ==
    {NoFile, DeniedFile} \cup {TextFile(text) : text \in UNION {EditTexts(n) : n \in 0..MaxEditLines}}

EditInit ==
    /\ disk \in EditFiles
    /\ prior = disk
    /\ globalFile = MissingFile
    /\ localFile = MissingFile
    /\ op = "init"
    /\ err = "none"
    /\ g = EmptyDB
    /\ l = EmptyDB
    /\ db = EmptyDB
    /\ arg = <<>>
    /\ results = <<>>
    /\ entries = <<>>
    /\ out = <<>>
    /\ format = "none"
    /\ code = 0

\* The end of an editing operation r on the file: its error, the file it
\* leaves, and the file it found.
Edited(name, a, r) ==
    /\ op' = name
    /\ arg' = a
    /\ err' = r.err
    /\ disk' = r.file
    /\ prior' = disk
    /\ UNCHANGED <<globalFile, localFile, g, l, db, results, entries, out, format, code>>

\* store.SetValue(path, category, key, value)
SetAction ==
    /\ op = "init"
    /\ \E c \in EditCats, k \in EditKeys, v \in EditValues :
          Edited("Set", <<c, k, v>>, SetValue(disk, c, k, v))

\* store.RemoveValue(path, category, key)
RemoveValueAction ==
    /\ op = "init"
    /\ \E c \in EditCats, k \in EditKeys :
          Edited("RemoveValue", <<c, k>>, RemoveValue(disk, c, k))

\* store.RemoveCategory(path, category)
RemoveCategoryAction ==
    /\ op = "init"
    /\ \E c \in EditCats : Edited("RemoveCategory", <<c>>, RemoveCategory(disk, c))

EditNext ==
    \/ SetAction
    \/ RemoveValueAction
    \/ RemoveCategoryAction

SpecEdit == EditInit /\ [][EditNext]_vars


\* The store file the operation found could be loaded (or was not there).
PriorLoads ==
    \/ prior.state = "missing"
    \/ prior.state = "file" /\ Unmarshal(prior.content).state = "ok"

\* C16: after SetValue(file, C, K, v) succeeds on a file that loads, is
\* empty or missing, the file loads and holds the field C.K with the string
\* value v.
C16_SetThenGet ==
    (op = "Set" /\ err = "none" /\ PriorLoads) =>
        /\ disk.state = "file"
        /\ LoadFile(Unmarshal(disk.content)).err = "none"
        /\ GetField(LoadFile(Unmarshal(disk.content)).db,
                    arg[1] \o <<".">> \o arg[2]).found
        /\ GetField(LoadFile(Unmarshal(disk.content)).db,
                    arg[1] \o <<".">> \o arg[2]).field.Value = StrVal(arg[3])


\* The lines of a text: each line ends with a newline, the last one perhaps
\* without.
TextLines(content) ==
    IF content = <<>> THEN <<>>
    ELSE IF content[Len(content)] = NL
    THEN SplitLines(SubSeq(content, 1, Len(content) - 1), <<>>)
    ELSE SplitLines(content, <<>>)

\* A line that is a TOML table header, and the name it gives.
IsHeader(line) ==
    HasPrefix(TrimSpace(line), <<"[">>) /\ HasSuffix(TrimSpace(line), <<"]">>)

HeaderName(line) ==
    TrimSpace(SubSeq(TrimSpace(line), 2, Len(TrimSpace(line)) - 1))

HeadersOf(lines, category) ==
    {i \in 1..Len(lines) : IsHeader(lines[i]) /\ HeaderName(lines[i]) = category}

\* Line n lies in a section of the category: after one of its headers with
\* no other header between.
InSectionOf(lines, n, category) ==
    \E h \in HeadersOf(lines, category) :
        h < n /\ \A i \in (h + 1)..(n - 1) : ~IsHeader(lines[i])

\* after is before with one line of the section replaced.
LineReplaced(before, after, category) ==
    /\ Len(after) = Len(before)
    /\ \E n \in 1..Len(before) :
          /\ \A i \in 1..Len(before) : i # n => after[i] = before[i]
          /\ InSectionOf(before, n, category)

\* after is before with one line inserted at the end of the section.
LineInserted(before, after, category) ==
    /\ Len(after) = Len(before) + 1
    /\ \E n \in 1..Len(after) :
          /\ SubSeq(after, 1, n - 1) \o SubSeq(after, n + 1, Len(after)) = before
          /\ InSectionOf(after, n, category)
          /\ n = Len(after) \/ IsHeader(after[n + 1])

\* before has no section of the category, and after is before with at most
\* one blank line, the header and one line appended.
SectionAppended(before, after, category) ==
    /\ HeadersOf(before, category) = {}
    /\ \E sep \in {<<>>, <<<<>>>>} :
          /\ Len(after) = Len(before) + Len(sep) + 2
          /\ SubSeq(after, 1, Len(after) - 1) = before \o sep \o <<HeaderLine(category)>>

\* C17: SetValue on an existing file replaces one line of section [C],
\* inserts one line at the end of section [C], or appends a header [C], the
\* key line and at most one blank line when the file has no section [C];
\* every other line stays as it is, and no header appears a second time.
C17_SetFrame ==
    (op = "Set" /\ err = "none" /\ prior.state = "file") =>
        /\ \/ LineReplaced(TextLines(prior.content), TextLines(disk.content), arg[1])
           \/ LineInserted(TextLines(prior.content), TextLines(disk.content), arg[1])
           \/ SectionAppended(TextLines(prior.content), TextLines(disk.content), arg[1])
        /\ \/ Cardinality(HeadersOf(TextLines(disk.content), arg[1])) <= 1
           \/ Cardinality(HeadersOf(TextLines(disk.content), arg[1]))
                 <= Cardinality(HeadersOf(TextLines(prior.content), arg[1]))


\* The key a line defines: the text before its first "=", without blanks
\* and quotes; nothing for a comment, a header or a line without "=".
FirstEquals(line) ==
    IF \E i \in 1..Len(line) : line[i] = "="
    THEN CHOOSE i \in 1..Len(line) : line[i] = "=" /\ \A j \in 1..(i - 1) : line[j] # "="
    ELSE 0

Unquoted(str) ==
    IF Len(str) >= 2 /\ str[1] = "\"" /\ str[Len(str)] = "\""
    THEN SubSeq(str, 2, Len(str) - 1)
    ELSE str

DefinesKey(line, key) ==
    /\ FirstEquals(line) > 0
    /\ ~HasPrefix(TrimSpace(line), <<"#">>)
    /\ ~IsHeader(line)
    /\ Unquoted(TrimSpace(SubSeq(line, 1, FirstEquals(line) - 1))) = key

\* The file has no line that defines the key in a section of the category.
KeyAbsent(lines, category, key) ==
    \A n \in 1..Len(lines) :
        ~(InSectionOf(lines, n, category) /\ DefinesKey(lines[n], key))

\* What RemoveValue or RemoveCategory was to remove is not there: the file
\* cannot be read, it has no section [C], or the section has no key K.
TargetMissing ==
    \/ prior.state # "file"
    \/ HeadersOf(TextLines(prior.content), arg[1]) = {}
    \/ op = "RemoveValue" /\ KeyAbsent(TextLines(prior.content), arg[1], arg[2])

HeaderOver(lines, n) ==
    IF \E h \in 1..n : IsHeader(lines[h])
    THEN CHOOSE h \in 1..n : IsHeader(lines[h]) /\ \A i \in (h + 1)..n : ~IsHeader(lines[i])
    ELSE 0

\* The lines of a sequence at the places of a set, in order.
RECURSIVE LinesAt(_, _, _)
LinesAt(lines, S, n) ==
    IF n > Len(lines) THEN <<>>
    ELSE (IF n \in S THEN <<lines[n]>> ELSE <<>>) \o LinesAt(lines, S, n + 1)

\* The places of the sections of the category, headers included, and of the
\* sections of every other category.
SectionPlaces(lines, category) ==
    {n \in 1..Len(lines) :
        HeaderOver(lines, n) > 0 /\ HeaderName(lines[HeaderOver(lines, n)]) = category}

OtherPlaces(lines, category) ==
    {n \in 1..Len(lines) :
        HeaderOver(lines, n) > 0 /\ HeaderName(lines[HeaderOver(lines, n)]) # category}

\* A line that is neither blank, nor a comment, nor a header.
IsKeyLine(line) ==
    /\ TrimSpace(line) # <<>>
    /\ ~HasPrefix(TrimSpace(line), <<"#">>)
    /\ ~IsHeader(line)

\* C25: after RemoveValue(file, C, K) succeeds on a file that loads, the
\* line that defined K in section [C] is gone; the section, its header and
\* its blank and comment lines, is removed exactly when no key line remains
\* in it, and otherwise keeps every other line; the lines of the other
\* sections are unchanged and in the same order.
C25_RemoveValueEffect ==
    (op = "RemoveValue" /\ err = "none" /\ PriorLoads) =>
        LET before == TextLines(prior.content)
            after == TextLines(disk.content)
            C == arg[1]
            K == arg[2]
            mine == SectionPlaces(before, C)
            gone == {n \in mine : DefinesKey(before[n], K)}
            left == {n \in mine \ gone : IsKeyLine(before[n])}
        IN  /\ KeyAbsent(after, C, K)
            /\ LinesAt(after, SectionPlaces(after, C), 1) =
                  IF left = {} THEN <<>> ELSE LinesAt(before, mine \ gone, 1)
            /\ LinesAt(after, OtherPlaces(after, C), 1) =
                  LinesAt(before, OtherPlaces(before, C), 1)

----------------------------------------------------------------------------
(* deets import <file> [--dry-run] [--local] *)

\* What LoadFile reads from a file on disk.
Parsed(file) == IF file.state # "file" THEN MissingFile ELSE Unmarshal(file.content)

\* The files of an import: the global and the local store and the file to
\* import.
Disk(global, local, import) == [global |-> global, local |-> local, import |-> import]

StatusChange == <<"c", "h", "a", "n", "g", "e">>
StatusAdd == <<"a", "d", "d">>

\* The body of importDryRun's loop for one field of the import file;
\* existing holds loadDB's error and Database.
DryRunField(existing, f, path, newVal) ==
    IF existing.err # "none" \/ ~GetField(existing.db, path).found
    THEN <<DiffEntry(path, StatusAdd, <<>>, newVal)>>
    ELSE IF FormatValue(GetField(existing.db, path).field.Value) = newVal THEN <<>>
    ELSE <<DiffEntry(path, StatusChange,
                     FormatValue(GetField(existing.db, path).field.Value), newVal)>>

RECURSIVE DryRunEntries(_, _)
DryRunEntries(existing, fields) ==
    IF fields = <<>> THEN <<>>
    ELSE DryRunField(existing, fields[1], fields[1].Category \o <<".">> \o fields[1].Key,
                     FormatValue(fields[1].Value))
         \o DryRunEntries(existing, Tail(fields))

\* What an import comes to: its error, the Database of the import file, the
\* entries it reports, the exit status and the files it leaves.
Outcome(e, importDB, found, status, files) ==
    [err |-> e, db |-> importDB, entries |-> found, code |-> status, files |-> files]

\* The global and the local store as LoadFile reads them.
ParsedStores(files) == [f \in {"global", "local"} |-> Parsed(files[f])]

\* commands.importDryRun: a missing store is tolerated, another error of
\* loadDB ends the command.
importDryRun(importDB, existing, files) ==
    IF existing.err \notin {"none", "nodeets"}
    THEN Outcome(existing.err, importDB, <<>>, 1, files)
    ELSE Outcome("none", importDB, DryRunEntries(existing, AllFields(importDB)), 0, files)

\* One turn of the loop of importCmd.RunE: SetValue of the field, and the
\* rest of the loop unless it failed.
RECURSIVE ImportFields(_, _)
ImportField(w, rest) == IF w.err # "none" THEN w ELSE ImportFields(w.file, rest)

\* The loop of importCmd.RunE over the fields, up to the first error.
ImportFields(target, fields) ==
    IF fields = <<>> THEN [err |-> "none", file |-> target]
    ELSE ImportField(SetValue(target, fields[1].Category, fields[1].Key,
                              tomlValue(fields[1].Value)),
                     Tail(fields))

ImportWritten(importDB, local, w, files) ==
    Outcome(w.err, importDB, <<>>, IF w.err = "none" THEN 0 ELSE 1,
            IF local THEN [files EXCEPT !.local = w.file]
            ELSE [files EXCEPT !.global = w.file])

\* importCmd.RunE writing into the target file.
importWrite(importDB, local, files) ==
    ImportWritten(importDB, local,
                  ImportFields(IF local THEN files.local ELSE files.global,
                               AllFields(importDB)),
                  files)

\* importCmd.RunE that ignores --dry-run.
importRunWriting(r, dryRun, local, existing, files) ==
    IF r.err # "none" THEN Outcome(r.err, EmptyDB, <<>>, 1, files)
    ELSE importWrite(r.db, local, files)

\* importCmd.RunE once the import file is loaded; existing is what loadDB
\* returns.
importRun(r, dryRun, local, existing, files) ==
    IF r.err # "none" THEN Outcome(r.err, EmptyDB, <<>>, 1, files)
    ELSE IF dryRun THEN importDryRun(r.db, existing, files)
    ELSE importWrite(r.db, local, files)

\* The end of an import.
Imported(a, o) ==
    /\ op' = "Import"
    /\ arg' = a
    /\ err' = o.err
    /\ db' = o.db
    /\ entries' = o.entries
    /\ code' = o.code
    /\ disk' = o.files
    /\ prior' = disk
    /\ globalFile' = ParsedStores(o.files).global
    /\ localFile' = ParsedStores(o.files).local
    /\ UNCHANGED <<g, l, results, out, format>>

\* importCmd.RunE
ImportCommand ==
    /\ op = "init"
    /\ \E dryRun \in BOOLEAN, local \in BOOLEAN :
          Imported(<<dryRun, local>>,
                   importRun(LoadFile(Parsed(disk.import)), dryRun, local, loadDB, disk))

\* The store files hold at most MaxStoreLines lines, the import file at
\* most MaxImportLines.
MaxStoreLines == 2
MaxImportLines == 3

StoreLines ==
    { <<"[", "a", "]">>, <<"k", " ", "=", " ", "\"", "x", "\"">>, <<"j", " ", "=", " ", "1">> }

ImportLines ==
    { <<"[", "a", "]">>, <<"k", " ", "=", " ", "\"", "y", "\"">>, <<"j", " ", "=", " ", "1">>,
      <<"k", "_", "d", "e", "s", "c", " ", "=", " ", "\"", "d", "\"">> }

\* The texts of n lines out of a set of lines.
RECURSIVE TextsOf(_, _)
TextsOf(lines, n) ==
    IF n = 0 THEN {<<>>}
    ELSE {line \o <<NL>> \o rest : line \in lines, rest \in TextsOf(lines, n - 1)}

FilesOf(lines, max) ==
    {NoFile} \cup {TextFile(text) : text \in UNION {TextsOf(lines, n) : n \in 0..max}}

ImportInit ==
    /\ disk \in {Disk(gf, lf, f) :
                    gf \in FilesOf(StoreLines, MaxStoreLines),
                    lf \in {NoFile, TextFile(<<"[", "a", "]", NL, "k", " ", "=", " ",
                                               "\"", "y", "\"", NL>>)},
                    f \in FilesOf(ImportLines, MaxImportLines)}
    /\ prior = disk
    /\ globalFile = ParsedStores(disk).global
    /\ localFile = ParsedStores(disk).local
    /\ op = "init"
    /\ err = "none"
    /\ g = EmptyDB
    /\ l = EmptyDB
    /\ db = EmptyDB
    /\ arg = <<>>
    /\ results = <<>>
    /\ entries = <<>>
    /\ out = <<>>
    /\ format = "none"
    /\ code = 0

ImportNext == ImportCommand

SpecImport == ImportInit /\ [][ImportNext]_vars

\* C19: import --dry-run leaves the global and the local store file as they
\* were, so they load as before, whether or not it reports changes.
C19_DryRunNoWrite ==
    (op = "Import" /\ arg[1]) =>
        /\ disk = prior
        /\ globalFile = ParsedStores(prior).global
        /\ localFile = ParsedStores(prior).local

\* A dry run that reported a change and an addition against a store that
\* can be loaded.
C19_Witness ==
    /\ op = "Import"
    /\ arg[1]
    /\ err = "none"
    /\ prior.global.state = "file"
    /\ \E i, j \in 1..Len(entries) :
          entries[i].Status = StatusChange /\ entries[j].Status = StatusAdd
    /\ disk = prior


----------------------------------------------------------------------------
(* config.FindLocalDir *)

\* config.DirName
DirName == <<".", "d", "e", "e", "t", "s">>

\* A path is the sequence of its components, the filesystem root the empty
\* sequence. filepath.Dir and filepath.Join:
Dir(path) == IF path = <<>> THEN <<>> ELSE SubSeq(path, 1, Len(path) - 1)
JoinPath(path, name) == Append(path, name)

\* os.Stat(candidate) in the directory `depth` components below the root:
\* a directory, a regular file, or an error.
IsDirAt(files, depth) == files.deets[depth] = "dir"

\* The loop with the home test after the look at the candidate.
RECURSIVE WalkUpThroughHome(_, _)
WalkUpThroughHome(files, dir) ==
    IF IsDirAt(files, Len(dir)) THEN JoinPath(dir, DirName)
    ELSE IF dir = files.home THEN <<>>
    ELSE IF Dir(dir) = dir THEN <<>>
    ELSE WalkUpThroughHome(files, Dir(dir))

\* The loop of FindLocalDir from dir upward.
RECURSIVE WalkUp(_, _)
WalkUp(files, dir) ==
    IF dir = files.home THEN <<>>
    ELSE IF IsDirAt(files, Len(dir)) THEN JoinPath(dir, DirName)
    ELSE IF Dir(dir) = dir THEN <<>>
    ELSE WalkUp(files, Dir(dir))

\* config.FindLocalDir; the empty path stands for "".
FindLocalDir(files) ==
    IF files.homeErr THEN <<>>
    ELSE IF files.cwdErr THEN <<>>
    ELSE WalkUp(files, files.cwd)

\* config.FileName
FileName == <<"m", "e", ".", "t", "o", "m", "l">>

\* os.Stat(file) for me.toml in the directory .deets that was found: the
\* directory is the last but one component of localDir's path.
MeAt(files, localDir) == files.me[Len(localDir) - 1]

\* FindLocalFile without the test that me.toml is not a directory.
FindLocalFileAnyStat(files) ==
    LET localDir == FindLocalDir(files)
    IN  IF localDir = <<>> THEN <<>>
        ELSE IF MeAt(files, localDir) = "none" THEN <<>>
        ELSE JoinPath(localDir, FileName)

\* config.FindLocalFile
FindLocalFile(files) ==
    LET localDir == FindLocalDir(files)
    IN  IF localDir = <<>> THEN <<>>
        ELSE IF MeAt(files, localDir) = "none" \/ MeAt(files, localDir) = "dir" THEN <<>>
        ELSE JoinPath(localDir, FileName)

\* The working directory lies at most MaxDepth directories below the root.
MaxDepth == 3

\* The directory of each depth on the way from the root to the working
\* directory, and a directory off that way.
DirAt(depth) == [i \in 1..depth |-> <<"d">>]
Elsewhere == <<<<"h">>>>

\* The working directory, the home directory (on the way to the working
\* directory, below it or elsewhere), whether os.UserHomeDir or os.Getwd
\* fails, what .deets is in each directory from the root (depth 0) to the
\* working directory, and what me.toml is in each .deets that is a directory
\* (absent, a file, a directory): the pairs of the two.
StatPairs ==
    { <<"none", "none">>, <<"file", "none">>, <<"dir", "none">>, <<"dir", "file">>,
      <<"dir", "dir">> }

\* The home directories tried with a working directory of depth n, and
\* whether os.UserHomeDir or os.Getwd fails.
FindHomes(n) ==
    [home : {DirAt(i) : i \in 0..n} \cup {Elsewhere, JoinPath(DirAt(n), <<"h">>)},
     homeErr : BOOLEAN, cwdErr : BOOLEAN]

FindFiles(n, h, dm) ==
    [cwd |-> DirAt(n), home |-> h.home, homeErr |-> h.homeErr, cwdErr |-> h.cwdErr,
     deets |-> [i \in 0..n |-> dm[i][1]], me |-> [i \in 0..n |-> dm[i][2]]]

FindInit ==
    /\ \E n \in 0..MaxDepth :
          \E h \in FindHomes(n), dm \in [0..n -> StatPairs] : disk = FindFiles(n, h, dm)
    /\ prior = disk
    /\ globalFile = MissingFile
    /\ localFile = MissingFile
    /\ op = "init"
    /\ err = "none"
    /\ g = EmptyDB
    /\ l = EmptyDB
    /\ db = EmptyDB
    /\ arg = <<>>
    /\ results = <<>>
    /\ entries = <<>>
    /\ out = <<>>
    /\ format = "none"
    /\ code = 0

\* config.FindLocalDir()
FindLocalDirAction ==
    /\ op = "init"
    /\ op' = "FindLocalDir"
    /\ out' = FindLocalDir(disk)
    /\ UNCHANGED <<globalFile, localFile, err, g, l, db, arg, results, entries,
                   format, code, disk, prior>>

\* config.FindLocalFile()
FindLocalFileAction ==
    /\ op = "init"
    /\ op' = "FindLocalFile"
    /\ out' = FindLocalFile(disk)
    /\ UNCHANGED <<globalFile, localFile, err, g, l, db, arg, results, entries,
                   format, code, disk, prior>>

FindNext == FindLocalDirAction \/ FindLocalFileAction

SpecFind == FindInit /\ [][FindNext]_vars

\* The depths FindLocalDir is to look at: from the working directory up to
\* the root, or up to the directory below home when home is on that way.
WalkDepths(files) ==
    IF \E i \in 0..Len(files.cwd) : SubSeq(files.cwd, 1, i) = files.home
    THEN (Len(files.home) + 1)..Len(files.cwd)
    ELSE 0..Len(files.cwd)

\* The depths among them where .deets is a directory.
Found(files) == {i \in WalkDepths(files) : files.deets[i] = "dir"}

\* C20: FindLocalDir returns .deets of the nearest directory, from the
\* working directory upward and short of home, in which .deets is a
\* directory, and the empty path when there is none; it never returns
\* <home>/.deets.
C20_FindLocalDir ==
    (op = "FindLocalDir" /\ ~disk.homeErr /\ ~disk.cwdErr) =>
        /\ out # JoinPath(disk.home, DirName)
        /\ IF Found(disk) = {} THEN out = <<>>
           ELSE out = JoinPath(SubSeq(disk.cwd, 1,
                                      CHOOSE i \in Found(disk) : \A j \in Found(disk) : j <= i),
                               DirName)

\* FindLocalDir passed a regular file .deets in the working directory and
\* returned the directory .deets of a parent, with the global store in
\* home above it.
C20_Witness ==
    /\ op = "FindLocalDir"
    /\ ~disk.homeErr /\ ~disk.cwdErr
    /\ Len(disk.cwd) >= 2
    /\ disk.deets[Len(disk.cwd)] = "file"
    /\ disk.home = <<>> \/ Len(disk.home) < Len(out) - 1
    /\ disk.home \in {DirAt(i) : i \in 0..Len(disk.cwd)}
    /\ disk.deets[Len(disk.home)] = "dir"
    /\ out # <<>>
    /\ Len(out) - 1 < Len(disk.cwd)


\* The depths of the walk where .deets is a directory that holds me.toml as
\* a file.
Holders(files) == {i \in WalkDepths(files) : files.deets[i] = "dir" /\ files.me[i] = "file"}

\* The nearest of a set of depths to the working directory.
Nearest(S) == CHOOSE i \in S : \A j \in S : j <= i

\* me.toml in .deets of the directory at a depth of the walk.
LocalFileAt(files, depth) ==
    JoinPath(JoinPath(SubSeq(files.cwd, 1, depth), DirName), FileName)

\* C21 as stated: FindLocalFile returns a path exactly when some directory
\* of the walk holds .deets/me.toml as a file, and then the path of the
\* nearest such file.
C21_FindLocalFile ==
    (op = "FindLocalFile" /\ ~disk.homeErr /\ ~disk.cwdErr) =>
        IF Holders(disk) = {} THEN out = <<>>
        ELSE out = LocalFileAt(disk, Nearest(Holders(disk)))

\* C21 amended: FindLocalFile looks only into the nearest directory .deets
\* of the walk (the one FindLocalDir returns): it returns <that>/me.toml
\* exactly when os.Stat finds it and it is not a directory, and the empty
\* path otherwise, also when a .deets/me.toml lies further up.
C21_NearestDirOnly ==
    (op = "FindLocalFile" /\ ~disk.homeErr /\ ~disk.cwdErr) =>
        IF Found(disk) = {} THEN out = <<>>
        ELSE IF disk.me[Nearest(Found(disk))] = "file"
             THEN out = LocalFileAt(disk, Nearest(Found(disk)))
             ELSE out = <<>>

\* FindLocalFile returned the empty path although a directory above the
\* nearest .deets holds .deets/me.toml.
C21_Witness ==
    /\ op = "FindLocalFile"
    /\ ~disk.homeErr /\ ~disk.cwdErr
    /\ Found(disk) # {}
    /\ disk.me[Nearest(Found(disk))] = "none"
    /\ Holders(disk) # {}
    /\ out = <<>>


----------------------------------------------------------------------------
(* Claims about what LoadFile returns *)

\* The Databases LoadFile returned, each with the file it was read from.
LoadedFrom ==
    IF op = "LoadGlobal" /\ err = "none" THEN {<<globalFile, db>>}
    ELSE IF op = "Diff" /\ err = "none" THEN {<<globalFile, g>>, <<localFile, l>>}
    ELSE {}

\* The top-level names of a document that are tables with a key that is no
\* description key.
TablesWithFields(raw) ==
    {c \in DOMAIN raw :
        raw[c].isTable /\ \E k \in DOMAIN raw[c].tbl : ~EndsInDesc(k)}

\* C23: every category of a Database that LoadFile returns has a field, no
\* field's key ends in "_desc", and every field names the category that holds
\* it; the categories are the tables that hold a key other than a
\* description key, so an empty table, a table of description keys and a
\* top-level key that is no table yield no category and no error.
C23_NoEmptyCategories ==
    \A p \in LoadedFrom :
        LET d == p[2]
        IN  /\ \A i \in 1..Len(d.Categories) :
                  /\ Len(d.Categories[i].Fields) > 0
                  /\ \A j \in 1..Len(d.Categories[i].Fields) :
                        /\ ~EndsInDesc(d.Categories[i].Fields[j].Key)
                        /\ d.Categories[i].Fields[j].Category = d.Categories[i].Name
            /\ SeqRange(CategoryNames(d)) = TablesWithFields(p[1].raw)

\* LoadFile read a file that holds a top-level key that is no table and a
\* table without fields (empty, or of description keys only), and returned
\* without error.
C23_Witness ==
    /\ op = "LoadGlobal"
    /\ err = "none"
    /\ \E c \in DOMAIN globalFile.raw : ~globalFile.raw[c].isTable
    /\ \E c \in DOMAIN globalFile.raw :
          /\ globalFile.raw[c].isTable
          /\ c \notin SeqRange(CategoryNames(db))


\* The store file an import that writes is to change, as LoadFile reads it
\* afterwards.
ImportTarget == IF arg[2] THEN localFile ELSE globalFile

\* The fields of d stored under the category and key of f.
SameFieldIn(d, f) == FieldsAt(d, f.Category, f.Key)

\* C27: after an import that writes has succeeded, the target store loads
\* and holds every non-description field of the import file with the value
\* the import file gives it, of the same type.
C27_ImportPreserves ==
    (op = "Import" /\ ~arg[1] /\ err = "none") =>
        \A i \in 1..Len(AllFields(db)) :
            /\ LoadFile(ImportTarget).err = "none"
            /\ SameFieldIn(LoadFile(ImportTarget).db, AllFields(db)[i]) # {}
            /\ \A f \in SameFieldIn(LoadFile(ImportTarget).db, AllFields(db)[i]) :
                  f.Value = AllFields(db)[i].Value


----------------------------------------------------------------------------
(* A run of editing calls on one store file *)

\* At most MaxCalls calls change the file.
MaxCalls == 4

\* Plain names and plain values; one key begins with the other.
CallCats == {<<"a">>, <<"b">>}
CallKeys == {<<"k">>, <<"k", "2">>}
CallValues == {<<"x">>, <<"k", " ", "=">>}

\* The file is missing or empty, and no call has been made.
CallsInit ==
    /\ disk \in {NoFile, TextFile(<<>>)}
    /\ prior = disk
    /\ globalFile = MissingFile
    /\ localFile = MissingFile
    /\ op = "init"
    /\ err = "none"
    /\ g = EmptyDB
    /\ l = EmptyDB
    /\ db = EmptyDB
    /\ arg = <<>>
    /\ results = <<>>
    /\ entries = <<>>
    /\ out = <<>>
    /\ format = "none"
    /\ code = 0

\* The end of one call of a run: arg keeps the calls that succeeded.
Called(call, r) ==
    /\ op' = call[1]
    /\ arg' = IF r.err = "none" THEN Append(arg, call) ELSE arg
    /\ err' = r.err
    /\ disk' = r.file
    /\ prior' = disk
    /\ UNCHANGED <<globalFile, localFile, g, l, db, results, entries, out, format, code>>

\* store.SetValue(path, category, key, value), one call of several
SetCall ==
    /\ Len(arg) < MaxCalls
    /\ \E c \in CallCats, k \in CallKeys, v \in CallValues :
          Called(<<"SetValue", c, k, v>>, SetValue(disk, c, k, v))

\* store.RemoveValue(path, category, key), one call of several
RemoveValueCall ==
    /\ Len(arg) < MaxCalls
    /\ \E c \in CallCats, k \in CallKeys :
          Called(<<"RemoveValue", c, k>>, RemoveValue(disk, c, k))

\* store.RemoveCategory(path, category), one call of several
RemoveCategoryCall ==
    /\ Len(arg) < MaxCalls
    /\ \E c \in CallCats : Called(<<"RemoveCategory", c>>, RemoveCategory(disk, c))

CallsNext == SetCall \/ RemoveValueCall \/ RemoveCategoryCall

SpecCalls == CallsInit /\ [][CallsNext]_vars

\* The key-value store that a call turns the store kv into: a set of
\* <<category, key, value>>, the last write of a key winning.
AfterCall(kv, call) ==
    CASE call[1] = "SetValue" ->
            {e \in kv : ~(e[1] = call[2] /\ e[2] = call[3])}
            \cup {<<call[2], call[3], call[4]>>}
      [] call[1] = "RemoveValue" ->
            {e \in kv : ~(e[1] = call[2] /\ e[2] = call[3])}
      [] call[1] = "RemoveCategory" ->
            {e \in kv : e[1] # call[2]}

RECURSIVE AfterCalls(_, _)
AfterCalls(kv, calls) ==
    IF calls = <<>> THEN kv ELSE AfterCalls(AfterCall(kv, calls[1]), Tail(calls))

\* The fields of a Database as <<category, key, string value>>, and whether
\* all its values are strings.
StoredStrings(d) ==
    {<<f.Category, f.Key, f.Value.str>> : f \in SeqRange(AllFields(d))}

AllStrings(d) == \A f \in SeqRange(AllFields(d)) : f.Value.kind = "string"

\* The lines of the file that define the key in a section of the category.
DefiningLines(lines, category, key) ==
    {n \in 1..Len(lines) : InSectionOf(lines, n, category) /\ DefinesKey(lines[n], key)}

\* C28: after every run of successful SetValue, RemoveValue and
\* RemoveCategory calls on a file that was missing or empty, with plain
\* names and plain string values, the file loads, every key that was set and
\* not removed since stands on one line of the one section of its category,
\* and LoadFile yields exactly the fields of the key-value store the same
\* calls produce; a SetValue repeated leaves the file as it is.
C28_EditorRefines ==
    LET kv == AfterCalls({}, arg)
        loaded == LoadFile(Parsed(disk))
        lines == TextLines(disk.content)
    IN  /\ disk.state = "missing" => kv = {}
        /\ disk.state = "file" =>
              /\ loaded.err = "none"
              /\ AllStrings(loaded.db)
              /\ StoredStrings(loaded.db) = kv
              /\ \A e \in kv :
                    /\ Cardinality(HeadersOf(lines, e[1])) = 1
                    /\ Cardinality(DefiningLines(lines, e[1], e[2])) = 1
        /\ (/\ op = "SetValue" /\ err = "none" /\ Len(arg) >= 2
            /\ arg[Len(arg)] = arg[Len(arg) - 1])
              => disk = prior

\* A run that set a key in each of two sections, added a second key to the
\* first section and replaced a value, so that the file holds three keys.
C28_Witness ==
    /\ Len(arg) = MaxCalls
    /\ Cardinality(AfterCalls({}, arg)) = 3
    /\ \A i \in 1..Len(arg) : arg[i][1] = "SetValue"
    /\ {e[1] : e \in AfterCalls({}, arg)} = CallCats


----------------------------------------------------------------------------
(* config.ResolvePaths step by step: the loop of FindLocalDir *)

\* One turn of the loop of FindLocalDir without the test for the root.
LoopTurnNoRoot(files, dir) ==
    IF dir = files.home THEN [done |-> TRUE, result |-> <<>>, dir |-> dir]
    ELSE IF IsDirAt(files, Len(dir))
    THEN [done |-> TRUE, result |-> JoinPath(dir, DirName), dir |-> dir]
    ELSE [done |-> FALSE, result |-> <<>>, dir |-> Dir(dir)]

\* One turn of the loop of FindLocalDir: whether the loop is left, what
\* FindLocalDir returns then, and the directory of the next turn.
LoopTurn(files, dir) ==
    IF dir = files.home THEN [done |-> TRUE, result |-> <<>>, dir |-> dir]
    ELSE IF IsDirAt(files, Len(dir))
    THEN [done |-> TRUE, result |-> JoinPath(dir, DirName), dir |-> dir]
    ELSE IF Dir(dir) = dir THEN [done |-> TRUE, result |-> <<>>, dir |-> dir]
    ELSE [done |-> FALSE, result |-> <<>>, dir |-> Dir(dir)]

\* ResolvePaths has returned: results holds LocalDir, out LocalFile.
Returned(e, LocalDir, LocalFile) ==
    /\ op' = "returned"
    /\ err' = e
    /\ results' = LocalDir
    /\ out' = LocalFile
    /\ UNCHANGED <<globalFile, localFile, g, l, db, arg, entries, format, code, disk, prior>>

\* The control of ResolvePaths is in the loop of a FindLocalDir call, at
\* directory dir.
InLoop(call, dir) ==
    /\ op' = call
    /\ arg' = dir
    /\ UNCHANGED <<globalFile, localFile, err, g, l, db, results, entries, out, format,
                   code, disk, prior>>

\* ResolvePaths up to the loop of its FindLocalDir call.
ResolvePathsStart ==
    /\ op = "init"
    /\ IF disk.homeErr THEN Returned("home", <<>>, <<>>)
       ELSE IF disk.cwdErr THEN Returned("none", <<>>, <<>>)
       ELSE InLoop("LocalDir", disk.cwd)

\* One turn of the loop in the FindLocalDir call of ResolvePaths; a
\* directory found, FindLocalFile is called, which calls FindLocalDir again.
LocalDirTurn ==
    /\ op = "LocalDir"
    /\ IF ~LoopTurn(disk, arg).done THEN InLoop("LocalDir", LoopTurn(disk, arg).dir)
       ELSE IF LoopTurn(disk, arg).result = <<>> THEN Returned("none", <<>>, <<>>)
       ELSE /\ op' = "LocalFile"
            /\ arg' = disk.cwd
            /\ results' = LoopTurn(disk, arg).result
            /\ UNCHANGED <<globalFile, localFile, err, g, l, db, entries, out, format,
                           code, disk, prior>>

\* One turn of the loop in the FindLocalDir call of FindLocalFile, and the
\* rest of FindLocalFile and ResolvePaths once the loop is left.
LocalFileTurn ==
    /\ op = "LocalFile"
    /\ IF ~LoopTurn(disk, arg).done THEN InLoop("LocalFile", LoopTurn(disk, arg).dir)
       ELSE IF LoopTurn(disk, arg).result = <<>> THEN Returned("none", results, <<>>)
       ELSE IF MeAt(disk, LoopTurn(disk, arg).result) \in {"none", "dir"}
       THEN Returned("none", results, <<>>)
       ELSE Returned("none", results, JoinPath(LoopTurn(disk, arg).result, FileName))

WalkNext == ResolvePathsStart \/ LocalDirTurn \/ LocalFileTurn

\* The statements of one call run one after the other until it returns.
SpecWalk == FindInit /\ [][WalkNext]_vars /\ WF_vars(WalkNext)

\* C29: every turn of the loop of FindLocalDir leaves the loop (a directory
\* .deets found, the home directory or the root reached) or goes on with
\* the parent, a strictly shorter path; so the loop ends and ResolvePaths,
\* with the FindLocalDir and FindLocalFile calls in it, returns.
C29_WalkTerminates ==
    /\ [][(op = "LocalDir" \/ op = "LocalFile") => (op' # op \/ Len(arg') < Len(arg))]_vars
    /\ <>(op = "returned")

\* ResolvePaths walked from the working directory up to the root, MaxDepth
\* directories above it, without finding a directory .deets, and returned.
C29_Witness ==
    /\ op = "returned"
    /\ err = "none"
    /\ ~disk.cwdErr
    /\ Len(disk.cwd) = MaxDepth
    /\ Found(disk) = {}
    /\ WalkDepths(disk) = 0..MaxDepth
    /\ results = <<>>

====
